---- MODULE Spec2Model ----
(***************************************************************************)
(* asgi-caches: the response-interception protocol of CacheResponder, the  *)
(* cacheability rules, the Vary-aware cache key derivation, the response   *)
(* codec and the Cache-Control merge (patch_cache_control).                *)
(*                                                                         *)
(* Values.  A response header list (Response.raw_headers) is a sequence of *)
(* <<name, value>>; a value is the list of fields parse_http_list yields,  *)
(* each field the list of parts field.split("=") yields, so that           *)
(* "max-age=60, no-cache" is << <<"max-age", "60">>, <<"no-cache">> >>.    *)
(* A request header list is a sequence of <<name, string>>.  hashlib.md5   *)
(* is taken to be collision-free: a digest is modelled by the string it    *)
(* digests.                                                                *)
(***************************************************************************)
EXTENDS Integers, Sequences, FiniteSets, TLC

\* Bounds of the model.
MaxRequests == 2
MaxChunks == 1
MaxVaryRequests == 3
MaxControlRequests == 1
MaxNestedRequests == 2

\* Mutant: POST is looked up and stored too.
CACHABLE_METHODS_WithPost == {"GET", "HEAD", "POST"}

CACHABLE_METHODS == {"GET", "HEAD"}

\* Mutant: 404 responses are stored too.
CACHABLE_STATUS_CODES_With404 == {200, 304, 404}

CACHABLE_STATUS_CODES == {200, 304}
ONE_YEAR == 60 * 60 * 24 * 365

---------------------------------------------------------------------------
\* Numbers and their decimal rendering (f"{value}", str, int).

Digit == <<"0", "1", "2", "3", "4", "5", "6", "7", "8", "9">>

RECURSIVE Str(_)
Str(n) == IF n < 10 THEN Digit[n + 1] ELSE Str(n \div 10) \o Digit[(n % 10) + 1]

\* The numbers whose rendering int() is asked to read back in this model.
Numbers == {0, 1, 30, 60, 120, ONE_YEAR}

IsNumber(s) == \E n \in Numbers : Str(n) = s

ParseInt(s) == CHOOSE n \in Numbers : Str(n) = s

\* Mutant: the second value wins.
MinOf_Second(a, b) == b

MinOf(a, b) == IF a <= b THEN a ELSE b

SetMin(S) == CHOOSE m \in S : \A o \in S : m <= o

\* The elements of h at the indexes in keep, in order.
RECURSIVE Pick(_, _, _)
Pick(h, keep, i) ==
  IF i > Len(h) THEN <<>>
  ELSE (IF i \in keep THEN <<h[i]>> ELSE <<>>) \o Pick(h, keep, i + 1)

\* "=".join(parts): the text of one field.
RECURSIVE JoinEq(_)
JoinEq(parts) ==
  IF parts = <<>> THEN ""
  ELSE IF Len(parts) = 1 THEN parts[1]
  ELSE parts[1] \o "=" \o JoinEq(Tail(parts))

---------------------------------------------------------------------------
\* starlette MutableHeaders over Response.raw_headers, as the code uses it.

HeaderIndexes(h, name) == {i \in 1..Len(h) : h[i][1] = name}

HeaderHas(h, name) == HeaderIndexes(h, name) # {}

\* headers.get(name, default): the first header of that name.
HeaderGet(h, name, default) ==
  IF HeaderHas(h, name) THEN h[SetMin(HeaderIndexes(h, name))][2] ELSE default

\* headers[name] = value: the first header of that name is replaced and the
\* others of that name dropped; appended when there is none.
HeaderSet(h, name, value) ==
  LET idx == HeaderIndexes(h, name)
  IN IF idx = {} THEN Append(h, <<name, value>>)
     ELSE LET first == SetMin(idx)
              kept == Pick(h, ((1..Len(h)) \ idx) \cup {first}, 1)
              at == Cardinality({j \in 1..first : j \notin idx \/ j = first})
          IN [kept EXCEPT ![at] = <<name, value>>]

\* del headers[name]
HeaderDel(h, name) == Pick(h, (1..Len(h)) \ HeaderIndexes(h, name), 1)

\* dict(response.headers): one item per name, at the place of the name's first
\* header and with that header's value.
HeadersDict(h) ==
  Pick(h, {i \in 1..Len(h) : \A j \in 1..(i - 1) : h[j][1] # h[i][1]}, 1)

\* request.headers.get(name)
RequestHeaderHas(h, name) == \E i \in 1..Len(h) : h[i][1] = name

RequestHeaderGet(h, name) ==
  h[SetMin({i \in 1..Len(h) : h[i][1] = name})][2]

\* Mutant: every request is taken to carry cookies.
HasCookies_Always(request) == TRUE

\* request.cookies: empty without a Cookie header, or with an empty one.
HasCookies(request) ==
  /\ RequestHeaderHas(request.headers, "cookie")
  /\ RequestHeaderGet(request.headers, "cookie") # ""

---------------------------------------------------------------------------
\* patch_cache_control

\* A directive value: True/False, an int, or the text parsed from the header.
BoolV(b) == [t |-> "bool", b |-> b, n |-> 0, s |-> ""]

IntV(n) == [t |-> "int", b |-> FALSE, n |-> n, s |-> ""]

StrV(s) == [t |-> "str", b |-> FALSE, n |-> 0, s |-> s]

\* An insertion-ordered dict as a sequence of [key, val].
DictHas(d, k) == \E i \in 1..Len(d) : d[i].key = k

\* Mutant: every assignment adds an entry, even for a key already there.
DictSet_Append(d, k, v) == Append(d, [key |-> k, val |-> v])

DictGet(d, k) == d[CHOOSE i \in 1..Len(d) : d[i].key = k].val

DictSet(d, k, v) ==
  IF DictHas(d, k)
  THEN [i \in 1..Len(d) |-> IF d[i].key = k THEN [key |-> k, val |-> v] ELSE d[i]]
  ELSE Append(d, [key |-> k, val |-> v])

\* key.replace("_", "-") on the directive names of the configuration surface.
Hyphenate(key) ==
  CASE key = "max_age" -> "max-age"
    [] key = "max_stale" -> "max-stale"
    [] key = "must_revalidate" -> "must-revalidate"
    [] key = "no_cache" -> "no-cache"
    [] key = "no_store" -> "no-store"
    [] key = "no_transform" -> "no-transform"
    [] key = "stale_while_revalidate" -> "stale-while-revalidate"
    [] key = "stale_if_error" -> "stale-if-error"
    [] OTHER -> key

\* The loop over parse_http_list(headers.get("Cache-Control", "")).
RECURSIVE ParseCacheControl(_, _)
ParseCacheControl(fields, d) ==
  IF fields = <<>> THEN d
  ELSE LET field == Head(fields)
       IN ParseCacheControl(
            Tail(fields),
            IF Len(field) = 2
            THEN DictSet(d, field[1], StrV(field[2]))
            ELSE DictSet(d, JoinEq(field), BoolV(TRUE)))

\* int(value) succeeds.
CanInt(v) == v.t # "str" \/ IsNumber(v.s)

\* int(value)
IntOf(v) ==
  CASE v.t = "int" -> v.n
    [] v.t = "bool" -> (IF v.b THEN 1 ELSE 0)
    [] OTHER -> ParseInt(v.s)

\* for key, value in kwargs.items(): cache_control[key.replace("_", "-")] = value
RECURSIVE MergeKwargs(_, _)
MergeKwargs(kwargs, d) ==
  IF kwargs = <<>> THEN d
  ELSE MergeKwargs(Tail(kwargs),
                   DictSet(d, Hyphenate(Head(kwargs).key), Head(kwargs).val))

\* The directives list: False dropped, True bare, anything else key=value.
RECURSIVE Directives(_)
Directives(d) ==
  IF d = <<>> THEN <<>>
  ELSE LET key == Head(d).key
           v == Head(d).val
       IN (CASE v.t = "bool" /\ ~v.b -> <<>>
             [] v.t = "bool" /\ v.b -> << <<key>> >>
             [] v.t = "int" -> << <<key, Str(v.n)>> >>
             [] OTHER -> << <<key, v.s>> >>)
          \o Directives(Tail(d))

\* "public" in kwargs, "private" in kwargs
Unsupported(kwargs) == DictHas(kwargs, "public") \/ DictHas(kwargs, "private")

\* min(int(cache_control["max-age"]), kwargs["max_age"]): the first argument
\* unless the second is smaller, and then the second as it was passed.
MinMaxAge(existing, override) ==
  IF MinOf(IntOf(existing), IntOf(override)) = IntOf(existing)
  THEN IntV(IntOf(existing))
  ELSE override

\* patch_cache_control(headers, **kwargs): what it raises ("" when nothing) and
\* the headers it leaves.
patch_cache_control(headers, kwargs) ==
  LET cache_control == ParseCacheControl(HeaderGet(headers, "cache-control", <<>>), <<>>)
      both == DictHas(cache_control, "max-age") /\ DictHas(kwargs, "max_age")
      capped ==
        IF both
        THEN DictSet(kwargs, "max_age",
                     MinMaxAge(DictGet(cache_control, "max-age"),
                               DictGet(kwargs, "max_age")))
        ELSE kwargs
      patched == Directives(MergeKwargs(capped, cache_control))
  IN IF both /\ ~CanInt(DictGet(cache_control, "max-age"))
     THEN [raised |-> "ValueError", headers |-> headers]
     ELSE IF Unsupported(kwargs)
     THEN [raised |-> "NotImplementedError", headers |-> headers]
     ELSE [raised |-> "",
           headers |-> IF patched # <<>>
                       THEN HeaderSet(headers, "cache-control", patched)
                       ELSE HeaderDel(headers, "cache-control")]

---------------------------------------------------------------------------
\* Requests, responses and ASGI events.

\* str(request.url)
AbsoluteUrl(request) ==
  "http://testserver" \o request.path
    \o (IF request.query = "" THEN "" ELSE "?" \o request.query)

NoRequest == [method |-> "", path |-> "", query |-> "", headers |-> <<>>]

\* scope["type"].  A scope is held by the fields a request is read from: an
\* http scope has a method, a websocket scope a path and no method, a lifespan
\* scope neither.
ScopeType(scope) ==
  CASE scope.method # "" -> "http"
    [] scope.path # "" -> "websocket"
    [] OTHER -> "lifespan"

\* Mutant: every scope is handled as an http scope.
IsHttp_Always(scope) == TRUE

\* CacheMiddleware.__call__, CacheControlMiddleware.__call__:
\* scope["type"] != "http" sends the call straight to the application.
IsHttp(scope) == ScopeType(scope) = "http"

\* A starlette Response: status_code, raw_headers, body.
NoResponse == [status_code |-> 0, raw_headers |-> <<>>, body |-> ""]

StartEvent(status, headers) ==
  [type |-> "http.response.start", status |-> status, headers |-> headers,
   body |-> "", more_body |-> FALSE]

BodyEvent(body, more_body) ==
  [type |-> "http.response.body", status |-> 0, headers |-> <<>>,
   body |-> body, more_body |-> more_body]

\* CacheResponder.initial_message before any event: {}
NoMessage ==
  [type |-> "", status |-> 0, headers |-> <<>>, body |-> "", more_body |-> FALSE]

---------------------------------------------------------------------------
\* Cache key derivation.

\* str.lower() on the header names a Vary header lists in this model.
Lower(name) ==
  CASE name = "Accept-Encoding" -> "accept-encoding"
    [] name = "Accept-Language" -> "accept-language"
    [] name = "Cookie" -> "cookie"
    [] OTHER -> name

\* The place of a lowercased header name in lexicographic order.
NameRank(name) ==
  CASE name = "accept-encoding" -> 1
    [] name = "accept-language" -> 2
    [] name = "cookie" -> 3
    [] OTHER -> 4

RECURSIVE Insert(_, _)
Insert(x, s) ==
  IF s = <<>> THEN <<x>>
  ELSE IF NameRank(x) <= NameRank(Head(s)) THEN <<x>> \o s
  ELSE <<Head(s)>> \o Insert(x, Tail(s))

\* Mutant: the names are kept in the order Vary lists them.
SortNames_AsListed(s) == s

\* list.sort()
RECURSIVE SortNames(_)
SortNames(s) == IF s = <<>> THEN <<>> ELSE Insert(Head(s), SortNames(Tail(s)))

\* learn_cache_key: the varying_headers list built from the response's Vary.
VaryingHeaders(raw_headers) ==
  IF HeaderHas(raw_headers, "vary")
  THEN LET fields == HeaderGet(raw_headers, "vary", <<>>)
       IN SortNames([i \in 1..Len(fields) |-> Lower(JoinEq(fields[i]))])
  ELSE <<>>

\* The text the ctx digest is fed: the values of the varying headers the
\* request carries, in order.
RECURSIVE CtxInput(_, _)
CtxInput(headers, varying_headers) ==
  IF varying_headers = <<>> THEN ""
  ELSE (IF RequestHeaderHas(headers, Head(varying_headers))
        THEN RequestHeaderGet(headers, Head(varying_headers))
        ELSE "")
       \o CtxInput(headers, Tail(varying_headers))

\* Mutant: the varying headers are left out of the key.
generate_cache_key_NoVary(request, method, varying_headers) ==
  <<"cache_page", method, AbsoluteUrl(request), "">>

\* Mutant: the key is built with the request's own method.
generate_cache_key_OwnMethod(request, method, varying_headers) ==
  <<"cache_page", request.method, AbsoluteUrl(request),
    CtxInput(request.headers, varying_headers)>>

generate_cache_key(request, method, varying_headers) ==
  <<"cache_page", method, AbsoluteUrl(request),
    CtxInput(request.headers, varying_headers)>>

\* Mutant: the vary index is kept per absolute URL.
generate_varying_headers_cache_key_ByUrl(request) ==
  <<"varying_headers", AbsoluteUrl(request)>>

generate_varying_headers_cache_key(request) ==
  <<"varying_headers", request.path>>

---------------------------------------------------------------------------
\* The response codec.

\* base64.encodebytes(data).decode("ascii") on the bodies of this model.
bytes_to_json_string(data) ==
  CASE data = "" -> ""
    [] data = "x" -> "eA==\n"
    [] data = "y" -> "eQ==\n"

\* base64.decodebytes(value.encode("ascii"))
json_string_to_bytes(value) ==
  CASE value = "" -> ""
    [] value = "eA==\n" -> "x"
    [] value = "eQ==\n" -> "y"

serialize_response(response) ==
  [content |-> bytes_to_json_string(response.body),
   status_code |-> response.status_code,
   headers |-> HeadersDict(response.raw_headers)]

\* Response(content=..., status_code=..., headers=...): starlette's
\* init_headers adds Content-Length to a body that has none declared.
deserialize_response(serialized_response) ==
  LET body == json_string_to_bytes(serialized_response.content)
      items == serialized_response.headers
  IN [status_code |-> serialized_response.status_code,
      raw_headers |->
        IF body # "" /\ ~HeaderHas(items, "content-length")
        THEN Append(items, <<"content-length", << <<Str(Len(body))>> >> >>)
        ELSE items,
      body |-> body]

---------------------------------------------------------------------------
\* store_in_cache, up to its first store write.

\* Mutant: the zero-ttl rule is missing.
ResponseNotCachableReason_NoTtlRule(response, request, cache_ttl) ==
  IF response.status_code \notin CACHABLE_STATUS_CODES THEN "status_code"
  ELSE IF ~HasCookies(request) /\ HeaderHas(response.raw_headers, "set-cookie")
  THEN "cookies_for_cookieless_request"
  ELSE ""

\* Why store_in_cache raises ResponseNotCachable ("" when it does not).
ResponseNotCachableReason(response, request, cache_ttl) ==
  IF response.status_code \notin CACHABLE_STATUS_CODES THEN "status_code"
  ELSE IF ~HasCookies(request) /\ HeaderHas(response.raw_headers, "set-cookie")
  THEN "cookies_for_cookieless_request"
  ELSE IF cache_ttl = <<0>> THEN "zero_ttl"
  ELSE ""

\* Mutant: the ttl is not used for max-age.
MaxAge_AlwaysOneYear(cache_ttl) == ONE_YEAR

\* cache.ttl is None (<<>>) or a number of seconds (<<n>>).
MaxAge(cache_ttl) == IF cache_ttl = <<>> THEN ONE_YEAR ELSE cache_ttl[1]

\* http_date(epoch_time), to the second.
http_date(epoch_time) == Str(epoch_time)

\* Mutant: Expires is set whether the response has one or not.
PatchResponseHeaders_OverwriteExpires(raw_headers, max_age, time) ==
  LET patched == patch_cache_control(raw_headers, <<[key |-> "max_age", val |-> IntV(max_age)]>>)
  IN IF patched.raised # "" THEN patched
     ELSE [raised |-> "",
           headers |-> HeaderSet(patched.headers, "expires",
                                 << <<http_date(time + max_age)>> >>)]

\* get_cache_response_headers followed by response.headers.update(...):
\* what is raised and the response's headers afterwards.
PatchResponseHeaders(raw_headers, max_age, time) ==
  LET patched == patch_cache_control(raw_headers, <<[key |-> "max_age", val |-> IntV(max_age)]>>)
  IN IF patched.raised # "" THEN patched
     ELSE IF ~HeaderHas(raw_headers, "expires")
     THEN [raised |-> "",
           headers |-> HeaderSet(patched.headers, "expires",
                                 << <<http_date(time + max_age)>> >>)]
     ELSE patched

---------------------------------------------------------------------------
\* The state.

VARIABLES
  store,      \* the cache: key -> value, for the keys it holds
  ttl,        \* cache.ttl: <<>> (None) or <<seconds>>
  request,    \* request[i]: the i-th request
  pc,         \* pc[i]: where the handling of request i stands
  responder,  \* responder[i]: the fields of the request's CacheResponder
  frame,      \* frame[i]: the locals live across an await
  app_send,   \* app_send[i]: the send callable the application was given
  emitted,    \* emitted[i]: the events the application has sent so far
  sent,       \* sent[i]: the events delivered to the downstream send
  ops,        \* ops[i]: the store calls made for request i, in order
  lookup      \* lookup[i]: the outcome logged by CacheResponder.__call__

vars ==
  <<store, ttl, request, pc, responder, frame, app_send, emitted, sent,
    ops, lookup>>

InFlight(i) == pc[i] \notin {"idle", "done", "raised"}

\* No request is being handled.
Quiet == \A j \in DOMAIN pc : ~InFlight(j)

\* Mutant: a key that holds a value keeps it.
CacheSet_KeepFirst(key, value) ==
  [k \in (DOMAIN store) \cup {key} |-> IF k \in DOMAIN store THEN store[k] ELSE value]

\* cache.set(key=key, value=value)
CacheSet(key, value) ==
  [k \in (DOMAIN store) \cup {key} |-> IF k = key THEN value ELSE store[k]]

\* Mutant: one CacheResponder is made once and handles every request.
ResponderOf_Shared(i) == 1

\* CacheMiddleware.__call__: responder = CacheResponder(self.app, cache=self.cache).
\* The responder that handles request i is made for it.
ResponderOf(i) == i

\* CacheResponder.__init__
NewResponder ==
  [initial_message |-> NoMessage, is_response_cachable |-> TRUE,
   request_set |-> FALSE, send_set |-> FALSE]

\* app_headers is the content of the header list object the application sent
\* in its start event.
NewFrame ==
  [method |-> "", cache_key |-> <<>>, response |-> NoResponse,
   message |-> NoMessage, time |-> 0, app_headers |-> <<>>]

\* The state before any request, with n requests to come and cache.ttl among ttls.
Start(n, ttls) ==
  /\ store = [k \in {} |-> <<>>]
  /\ ttl \in ttls
  /\ request = [i \in 1..n |-> NoRequest]
  /\ pc = [i \in 1..n |-> "idle"]
  /\ responder = [i \in 1..n |-> NewResponder]
  /\ frame = [i \in 1..n |-> NewFrame]
  /\ app_send = [i \in 1..n |-> ""]
  /\ emitted = [i \in 1..n |-> <<>>]
  /\ sent = [i \in 1..n |-> <<>>]
  /\ ops = [i \in 1..n |-> <<>>]
  /\ lookup = [i \in 1..n |-> ""]

---------------------------------------------------------------------------
\* CacheResponder.__call__ and get_from_cache.

\* The miss path of CacheResponder.__call__: the application is called with
\* send_with_caching.
Miss(i) ==
  /\ lookup' = [lookup EXCEPT ![i] = "MISS"]
  /\ responder' = [responder EXCEPT ![ResponderOf(i)].request_set = TRUE,
                                    ![ResponderOf(i)].send_set = TRUE]
  /\ app_send' = [app_send EXCEPT ![i] = "send_with_caching"]
  /\ pc' = [pc EXCEPT ![i] = "app"]

\* CacheMiddleware.__call__ for an http scope: a CacheResponder is made and
\* called, and get_from_cache checks the method.  RequestNotCachable: the
\* application is called with the original send.
CacheResponder_call(i, r) ==
  /\ pc[i] = "idle"
  /\ request' = [request EXCEPT ![i] = r]
  /\ IF ScopeType(r) # "http"
     THEN \* assert scope["type"] == "http"
          /\ pc' = [pc EXCEPT ![i] = "raised"]
          /\ UNCHANGED <<lookup, app_send, frame>>
     ELSE IF r.method \notin CACHABLE_METHODS
     THEN /\ lookup' = [lookup EXCEPT ![i] = "BYPASS"]
          /\ app_send' = [app_send EXCEPT ![i] = "send"]
          /\ pc' = [pc EXCEPT ![i] = "app"]
          /\ UNCHANGED frame
     ELSE /\ frame' = [frame EXCEPT ![i].method = "GET"]
          /\ pc' = [pc EXCEPT ![i] = "get_cache_key"]
          /\ UNCHANGED <<lookup, app_send>>
  /\ UNCHANGED <<store, ttl, responder, emitted, sent, ops>>

\* A request reaches CacheMiddleware; the requests take the indexes in order.
CacheResponderCall(i, r) ==
  /\ \A j \in DOMAIN pc : j < i => pc[j] # "idle"
  /\ CacheResponder_call(i, r)

\* get_cache_key(request, method): reads the vary index of the URL path.
get_cache_key(i) ==
  LET key == generate_varying_headers_cache_key(request[i])
  IN /\ pc[i] = "get_cache_key"
     /\ ops' = [ops EXCEPT ![i] = Append(@, <<"get", key>>)]
     /\ IF key \in DOMAIN store
        THEN /\ frame' = [frame EXCEPT ![i].cache_key =
                            generate_cache_key(request[i], frame[i].method, store[key])]
             /\ pc' = [pc EXCEPT ![i] = "cache_get"]
             /\ UNCHANGED <<lookup, responder, app_send>>
        ELSE IF frame[i].method = "GET"
        THEN Miss(i) /\ UNCHANGED frame
        ELSE \* assert cache_key is not None
             /\ pc' = [pc EXCEPT ![i] = "raised"]
             /\ UNCHANGED <<lookup, responder, app_send, frame>>
     /\ UNCHANGED <<store, ttl, request, emitted, sent>>

\* Mutant: no lookup ever falls back to the HEAD key.
FallsBackToHead_Never(r, method) == FALSE

\* Mutant: only HEAD requests fall back to the HEAD key.
FallsBackToHead_HeadRequestsOnly(r, method) == method = "GET" /\ r.method = "HEAD"

\* get_from_cache: "if serialized_response is None" after the lookup at the
\* GET key, whatever the method of the request.
FallsBackToHead(r, method) == method = "GET"

\* get_from_cache: cache.get(cache_key) and what follows it.
cache_get(i) ==
  LET key == frame[i].cache_key
  IN /\ pc[i] = "cache_get"
     /\ ops' = [ops EXCEPT ![i] = Append(@, <<"get", key>>)]
     /\ IF key \in DOMAIN store
        THEN /\ lookup' = [lookup EXCEPT ![i] = "HIT"]
             /\ frame' = [frame EXCEPT ![i].response = deserialize_response(store[key])]
             /\ pc' = [pc EXCEPT ![i] = "serve"]
             /\ UNCHANGED <<responder, app_send>>
        ELSE IF FallsBackToHead(request[i], frame[i].method)
        THEN /\ frame' = [frame EXCEPT ![i].method = "HEAD"]
             /\ pc' = [pc EXCEPT ![i] = "get_cache_key"]
             /\ UNCHANGED <<lookup, responder, app_send>>
        ELSE Miss(i) /\ UNCHANGED frame
     /\ UNCHANGED <<store, ttl, request, emitted, sent>>

\* The hit path: await response(scope, receive, send).
ServeCached(i) ==
  LET response == frame[i].response
  IN /\ pc[i] = "serve"
     /\ sent' = [sent EXCEPT ![i] =
                   <<StartEvent(response.status_code, response.raw_headers),
                     BodyEvent(response.body, FALSE)>>]
     /\ pc' = [pc EXCEPT ![i] = "done"]
     /\ UNCHANGED <<store, ttl, request, responder, frame, app_send,
                    emitted, ops, lookup>>

---------------------------------------------------------------------------
\* The application's events and CacheResponder.send_with_caching.

\* Mutant: more_body is not looked at.
MoreBody_Ignored(message) == FALSE

\* message.get("more_body", False)
MoreBody(message) == message.more_body

\* Mutant: the held start event is never sent.
SendHeld_BodyOnly(delivered, initial_message, message) ==
  Append(delivered, message)

\* Mutant: the body is sent before the held start event.
SendHeld_Swapped(delivered, initial_message, message) ==
  Append(Append(delivered, message), initial_message)

\* await self.send(self.initial_message); await self.send(message)
SendHeld(delivered, initial_message, message) ==
  Append(Append(delivered, initial_message), message)

\* Mutant: the start event is sent on as soon as it arrives.
HoldStart_SendAtOnce(delivered, message) == Append(delivered, message)

\* self.initial_message = message; return: nothing is sent.
HoldStart(delivered, message) == delivered

\* Mutant: response.raw_headers is the application's list itself.
OriginalAfterPatch_Aliased(original, patched) == patched

\* response.raw_headers = list(self.initial_message["headers"]): the response
\* holds a copy, so that what store_in_cache does to the response's headers
\* leaves the application's list as it was.
OriginalAfterPatch(original, patched) == original

\* The application returns after its last body event.
Returns(message) ==
  message.type = "http.response.body" /\ ~message.more_body

send_with_caching(i, message, time) ==
  LET self == responder[ResponderOf(i)]
      response == [status_code |-> self.initial_message.status,
                   raw_headers |-> self.initial_message.headers,
                   body |-> message.body]
      reason == ResponseNotCachableReason(response, request[i], ttl)
      patched == PatchResponseHeaders(response.raw_headers, MaxAge(ttl), time)
  IN IF ~self.is_response_cachable
     THEN /\ sent' = [sent EXCEPT ![i] = Append(@, message)]
          /\ pc' = [pc EXCEPT ![i] = IF Returns(message) THEN "done" ELSE "app"]
          /\ UNCHANGED <<responder, frame>>
     ELSE IF message.type = "http.response.start"
     THEN /\ responder' = [responder EXCEPT ![ResponderOf(i)].initial_message = message]
          /\ sent' = [sent EXCEPT ![i] = HoldStart(@, message)]
          /\ frame' = [frame EXCEPT ![i].app_headers = message.headers]
          /\ UNCHANGED pc
     ELSE IF MoreBody(message)
     THEN /\ responder' = [responder EXCEPT ![ResponderOf(i)].is_response_cachable = FALSE]
          /\ sent' = [sent EXCEPT ![i] = SendHeld(@, self.initial_message, message)]
          /\ UNCHANGED <<pc, frame>>
     ELSE IF reason # ""
     THEN \* store_in_cache raised ResponseNotCachable
          /\ responder' = [responder EXCEPT ![ResponderOf(i)].is_response_cachable = FALSE]
          /\ sent' = [sent EXCEPT ![i] = SendHeld(@, self.initial_message, message)]
          /\ pc' = [pc EXCEPT ![i] = "done"]
          /\ UNCHANGED frame
     ELSE IF patched.raised # ""
     THEN /\ pc' = [pc EXCEPT ![i] = "raised"]
          /\ UNCHANGED <<responder, sent, frame>>
     ELSE \* store_in_cache goes on to learn_cache_key
          /\ frame' = [frame EXCEPT
                         ![i].response = [response EXCEPT !.raw_headers = patched.headers],
                         ![i].message = message,
                         ![i].time = time,
                         ![i].app_headers =
                           OriginalAfterPatch(frame[i].app_headers, patched.headers)]
          /\ pc' = [pc EXCEPT ![i] = "learn_cache_key"]
          /\ UNCHANGED <<responder, sent>>

\* The application sends `message` on the send callable it was given; `time` is
\* what time.time() returns should store_in_cache read it.
AppSend(i, message, time) ==
  /\ pc[i] = "app"
  /\ emitted' = [emitted EXCEPT ![i] = Append(@, message)]
  /\ IF app_send[i] = "send"
     THEN /\ sent' = [sent EXCEPT ![i] = Append(@, message)]
          /\ pc' = [pc EXCEPT ![i] = IF Returns(message) THEN "done" ELSE "app"]
          /\ UNCHANGED <<responder, frame>>
     ELSE send_with_caching(i, message, time)
  /\ UNCHANGED <<store, ttl, request, app_send, ops, lookup>>

AppSendStart(i, status, headers) ==
  /\ emitted[i] = <<>>
  /\ AppSend(i, StartEvent(status, headers), 0)

AppSendBody(i, body, more_body, time) ==
  /\ emitted[i] # <<>>
  /\ more_body => Len(emitted[i]) - 1 < MaxChunks
  /\ AppSend(i, BodyEvent(body, more_body), time)

\* Mutant: learn_cache_key returns the key without writing the vary index.
learn_cache_key_NoIndexWrite(i) ==
  LET varying_headers == VaryingHeaders(frame[i].response.raw_headers)
  IN /\ pc[i] = "learn_cache_key"
     /\ frame' = [frame EXCEPT ![i].cache_key =
                    generate_cache_key(request[i], request[i].method, varying_headers)]
     /\ pc' = [pc EXCEPT ![i] = "cache_set"]
     /\ UNCHANGED <<store, ttl, request, responder, app_send, emitted, sent,
                    ops, lookup>>

\* store_in_cache: learn_cache_key writes the vary index of the URL path.
learn_cache_key(i) ==
  LET key == generate_varying_headers_cache_key(request[i])
      varying_headers == VaryingHeaders(frame[i].response.raw_headers)
  IN /\ pc[i] = "learn_cache_key"
     /\ store' = CacheSet(key, varying_headers)
     /\ ops' = [ops EXCEPT ![i] = Append(@, <<"set", key>>)]
     /\ frame' = [frame EXCEPT ![i].cache_key =
                    generate_cache_key(request[i], request[i].method, varying_headers)]
     /\ pc' = [pc EXCEPT ![i] = "cache_set"]
     /\ UNCHANGED <<ttl, request, responder, app_send, emitted, sent, lookup>>

\* store_in_cache writes the serialized response; send_with_caching then takes
\* the response's headers and forwards the held start event and the body.
cache_set(i) ==
  LET key == frame[i].cache_key
      response == frame[i].response
      initial_message ==
        [responder[ResponderOf(i)].initial_message EXCEPT !.headers = response.raw_headers]
  IN /\ pc[i] = "cache_set"
     /\ store' = CacheSet(key, serialize_response(response))
     /\ ops' = [ops EXCEPT ![i] = Append(@, <<"set", key>>)]
     /\ responder' = [responder EXCEPT ![ResponderOf(i)].initial_message = initial_message]
     /\ sent' = [sent EXCEPT ![i] = SendHeld(@, initial_message, frame[i].message)]
     /\ pc' = [pc EXCEPT ![i] = "done"]
     /\ UNCHANGED <<ttl, request, frame, app_send, emitted, lookup>>

---------------------------------------------------------------------------
\* Spec: requests served one after the other, with a cache whose ttl is 120.

Request(method, path, query, headers) ==
  [method |-> method, path |-> path, query |-> query, headers |-> headers]

Requests == 1..MaxRequests

CookieHeader == <<"cookie", "sid=1">>

SpecRequests ==
  { Request("GET", "/a", "", <<>>),
    Request("GET", "/a", "", <<CookieHeader>>),
    Request("HEAD", "/a", "", <<>>),
    Request("POST", "/a", "", <<>>) }

ContentLength1 == <<"content-length", << <<"1">> >> >>

SetCookie == <<"set-cookie", << <<"sid", "1">> >> >>

\* The start events the application answers with.
SpecStarts ==
  { StartEvent(200, <<ContentLength1>>),
    StartEvent(200, <<ContentLength1, SetCookie>>),
    StartEvent(200, << <<"x-a", << <<"1">> >> >>, <<"x-a", << <<"2">> >> >> >>),
    StartEvent(404, <<ContentLength1>>) }

\* The body events of the application.
SpecBodies ==
  {BodyEvent("x", FALSE), BodyEvent("y", FALSE), BodyEvent("x", TRUE)}

Init == Start(MaxRequests, {<<120>>})

Next ==
  \/ \E i \in Requests, r \in SpecRequests : Quiet /\ CacheResponderCall(i, r)
  \/ \E i \in Requests : get_cache_key(i)
  \/ \E i \in Requests : cache_get(i)
  \/ \E i \in Requests : ServeCached(i)
  \/ \E i \in Requests, start \in SpecStarts :
       AppSendStart(i, start.status, start.headers)
  \/ \E i \in Requests, event \in SpecBodies :
       AppSendBody(i, event.body, event.more_body, 0)
  \/ \E i \in Requests : learn_cache_key(i)
  \/ \E i \in Requests : cache_set(i)

Spec == Init /\ [][Next]_vars

---------------------------------------------------------------------------
\* SpecTtl: requests served one after the other, with a cache whose ttl is
\* None, 0 or 120.

MaxAge60 == <<"cache-control", << <<"max-age", "60">> >> >>

NoCache == <<"cache-control", << <<"no-cache">> >> >>

TtlStarts ==
  { StartEvent(200, <<ContentLength1>>),
    StartEvent(200, <<ContentLength1, MaxAge60>>),
    StartEvent(200, <<ContentLength1, NoCache>>),
    StartEvent(304, <<ContentLength1>>),
    StartEvent(404, <<ContentLength1>>) }

TtlBodies == {BodyEvent("x", FALSE), BodyEvent("x", TRUE)}

InitTtl == Start(MaxRequests, {<<>>, <<0>>, <<120>>})

NextTtl ==
  \/ \E i \in Requests, r \in SpecRequests : Quiet /\ CacheResponderCall(i, r)
  \/ \E i \in Requests : get_cache_key(i)
  \/ \E i \in Requests : cache_get(i)
  \/ \E i \in Requests : ServeCached(i)
  \/ \E i \in Requests, start \in TtlStarts :
       AppSendStart(i, start.status, start.headers)
  \/ \E i \in Requests, event \in TtlBodies :
       AppSendBody(i, event.body, event.more_body, 0)
  \/ \E i \in Requests : learn_cache_key(i)
  \/ \E i \in Requests : cache_set(i)

SpecTtl == InitTtl /\ [][NextTtl]_vars

---------------------------------------------------------------------------
\* SpecVary: GET requests to one URL, with or without an Accept-Encoding
\* header, answered with or without "Vary: Accept-Encoding".

VaryRequestIds == 1..MaxVaryRequests

VaryRequests ==
  { Request("GET", "/a", "", <<>>),
    Request("GET", "/a", "", << <<"accept-encoding", "gzip">> >>),
    Request("GET", "/a", "", << <<"accept-encoding", "identity">> >>) }

VaryAcceptEncoding == <<"vary", << <<"Accept-Encoding">> >> >>

VaryStarts ==
  { StartEvent(200, <<ContentLength1>>),
    StartEvent(200, <<ContentLength1, VaryAcceptEncoding>>) }

VaryBodies == {BodyEvent("x", FALSE), BodyEvent("y", FALSE)}

InitVary == Start(MaxVaryRequests, {<<120>>})

NextVary ==
  \/ \E i \in VaryRequestIds, r \in VaryRequests : Quiet /\ CacheResponderCall(i, r)
  \/ \E i \in VaryRequestIds : get_cache_key(i)
  \/ \E i \in VaryRequestIds : cache_get(i)
  \/ \E i \in VaryRequestIds : ServeCached(i)
  \/ \E i \in VaryRequestIds, start \in VaryStarts :
       AppSendStart(i, start.status, start.headers)
  \/ \E i \in VaryRequestIds, event \in VaryBodies :
       AppSendBody(i, event.body, event.more_body, 0)
  \/ \E i \in VaryRequestIds : learn_cache_key(i)
  \/ \E i \in VaryRequestIds : cache_set(i)

SpecVary == InitVary /\ [][NextVary]_vars

---------------------------------------------------------------------------
\* SpecQuery: GET and HEAD requests to one URL path, with or without a query
\* string, served one after the other with a cache whose ttl is 120.

QueryRequests ==
  { Request(method, "/a", query, <<>>) :
      method \in {"GET", "HEAD"}, query \in {"", "q=1"} }

QueryStarts ==
  {StartEvent(200, <<ContentLength1>>), StartEvent(404, <<ContentLength1>>)}

QueryBodies == {BodyEvent("x", FALSE), BodyEvent("y", FALSE)}

InitQuery == Start(MaxRequests, {<<120>>})

NextQuery ==
  \/ \E i \in Requests, r \in QueryRequests : Quiet /\ CacheResponderCall(i, r)
  \/ \E i \in Requests : get_cache_key(i)
  \/ \E i \in Requests : cache_get(i)
  \/ \E i \in Requests : ServeCached(i)
  \/ \E i \in Requests, start \in QueryStarts :
       AppSendStart(i, start.status, start.headers)
  \/ \E i \in Requests, event \in QueryBodies :
       AppSendBody(i, event.body, event.more_body, 0)
  \/ \E i \in Requests : learn_cache_key(i)
  \/ \E i \in Requests : cache_set(i)

SpecQuery == InitQuery /\ [][NextQuery]_vars

---------------------------------------------------------------------------
\* SpecCodec: a response is serialized into the store, read back and
\* deserialized.  frame[1].response is the response given to
\* serialize_response, frame[2].response the one deserialize_response returns.

CodecKey == <<"cache_page", "GET", "http://testserver/a", "">>

CodecHeaders ==
  { <<>>,
    <<ContentLength1>>,
    << <<"x-a", << <<"1">> >> >> >>,
    << <<"x-a", << <<"1">> >> >>, ContentLength1 >>,
    << <<"x-a", << <<"1">> >> >>, <<"x-a", << <<"2">> >> >>, ContentLength1 >>,
    << <<"set-cookie", << <<"a", "1">> >> >>, <<"set-cookie", << <<"b", "2">> >> >>,
       ContentLength1 >> }

CodecResponses ==
  { [status_code |-> status, raw_headers |-> headers, body |-> body] :
      status \in {200, 304, 404}, headers \in CodecHeaders, body \in {"", "x", "y"} }

InitCodec ==
  \E R \in CodecResponses :
    /\ store = [k \in {} |-> <<>>]
    /\ ttl = <<120>>
    /\ request = [i \in Requests |-> NoRequest]
    /\ pc = [i \in Requests |-> "idle"]
    /\ responder = [i \in Requests |-> NewResponder]
    /\ frame = [i \in Requests |->
                  IF i = 1 THEN [NewFrame EXCEPT !.response = R] ELSE NewFrame]
    /\ app_send = [i \in Requests |-> ""]
    /\ emitted = [i \in Requests |-> <<>>]
    /\ sent = [i \in Requests |-> <<>>]
    /\ ops = [i \in Requests |-> <<>>]
    /\ lookup = [i \in Requests |-> ""]

\* serialized_response = serialize_response(response); cache.set(...)
CodecSerialize ==
  /\ pc[1] = "idle"
  /\ store' = CacheSet(CodecKey, serialize_response(frame[1].response))
  /\ pc' = [pc EXCEPT ![1] = "done"]
  /\ UNCHANGED <<ttl, request, responder, frame, app_send, emitted, sent, ops, lookup>>

\* serialized_response = cache.get(...); deserialize_response(serialized_response)
CodecDeserialize ==
  /\ pc[1] = "done" /\ pc[2] = "idle"
  /\ frame' = [frame EXCEPT ![2].response = deserialize_response(store[CodecKey])]
  /\ pc' = [pc EXCEPT ![2] = "done"]
  /\ UNCHANGED <<store, ttl, request, responder, app_send, emitted, sent, ops, lookup>>

NextCodec == CodecSerialize \/ CodecDeserialize

SpecCodec == InitCodec /\ [][NextCodec]_vars

---------------------------------------------------------------------------
\* CacheControlMiddleware and CacheControlResponder.  A request passes through
\* one CacheControlMiddleware, or through several stacked ones given the same
\* overrides: the event the application sends is handled by the innermost
\* responder's send_with_caching, whose send is the next responder's.

\* Mutant: the event is sent on twice.
ControlSend_Twice(delivered, message) == Append(Append(delivered, message), message)

\* await self.send(message)
ControlSend(delivered, message) == Append(delivered, message)

\* CacheControlResponder.__init__ for each layer, all with the same kwargs.
NewControlResponder(kwargs, layers) ==
  [kwargs |-> kwargs, layers |-> layers, send_set |-> FALSE]

\* The message on its way out, the layers it has yet to pass, and the header
\* list each layer passed so far left on the start event.
NewControlFrame ==
  [message |-> NoMessage, left |-> 0, patched |-> <<>>, raised |-> ""]

\* CacheControlMiddleware.__call__ for an http scope: the responders are made
\* and called, and the application is called with send_with_caching.
CacheControlResponderCall(i, r, kwargs, layers) ==
  /\ pc[i] = "idle"
  /\ \A j \in DOMAIN pc : j < i => pc[j] # "idle"
  /\ request' = [request EXCEPT ![i] = r]
  /\ frame' = [frame EXCEPT ![i] = NewControlFrame]
  /\ IF ScopeType(r) # "http"
     THEN \* assert scope["type"] == "http"
          /\ responder' = [responder EXCEPT ![i] = NewControlResponder(kwargs, layers)]
          /\ pc' = [pc EXCEPT ![i] = "raised"]
          /\ UNCHANGED app_send
     ELSE /\ responder' = [responder EXCEPT ![i] =
                             [NewControlResponder(kwargs, layers) EXCEPT !.send_set = TRUE]]
          /\ app_send' = [app_send EXCEPT ![i] = "CacheControlResponder.send_with_caching"]
          /\ pc' = [pc EXCEPT ![i] = "app"]
  /\ UNCHANGED <<store, ttl, emitted, sent, ops, lookup>>

\* The application awaits send(message): the innermost send_with_caching is
\* entered.
ControlAppSend(i, message) ==
  /\ pc[i] = "app"
  /\ emitted' = [emitted EXCEPT ![i] = Append(@, message)]
  /\ frame' = [frame EXCEPT ![i].message = message,
                            ![i].left = responder[i].layers]
  /\ pc' = [pc EXCEPT ![i] = "send_with_caching"]
  /\ UNCHANGED <<store, ttl, request, responder, app_send, sent, ops, lookup>>

ControlAppSendStart(i, status, headers) ==
  /\ emitted[i] = <<>>
  /\ ControlAppSend(i, StartEvent(status, headers))

ControlAppSendBody(i, body, more_body) ==
  /\ emitted[i] # <<>>
  /\ more_body => Len(emitted[i]) - 1 < MaxChunks
  /\ ControlAppSend(i, BodyEvent(body, more_body))

\* CacheControlResponder.send_with_caching of one layer: a start event has
\* its headers patched, and the message goes to that layer's send, which is
\* the next layer's send_with_caching or, for the outermost, the client.  What
\* patch_cache_control raises goes up through the application to the caller.
CacheControlResponder_send_with_caching(i) ==
  LET message == frame[i].message
      result == patch_cache_control(message.headers, responder[i].kwargs)
      out == IF message.type = "http.response.start"
             THEN [message EXCEPT !.headers = result.headers]
             ELSE message
  IN /\ pc[i] = "send_with_caching"
     /\ IF message.type = "http.response.start" /\ result.raised # ""
        THEN /\ frame' = [frame EXCEPT ![i].raised = result.raised]
             /\ pc' = [pc EXCEPT ![i] = "raised"]
             /\ UNCHANGED sent
        ELSE /\ frame' = [frame EXCEPT
                            ![i].message = out,
                            ![i].left = @ - 1,
                            ![i].patched = IF message.type = "http.response.start"
                                           THEN Append(@, out.headers) ELSE @]
             /\ IF frame[i].left = 1
                THEN /\ sent' = [sent EXCEPT ![i] = ControlSend(@, out)]
                     /\ pc' = [pc EXCEPT ![i] = IF Returns(out) THEN "done" ELSE "app"]
                ELSE UNCHANGED <<sent, pc>>
     /\ UNCHANGED <<store, ttl, request, responder, app_send, emitted, ops, lookup>>

ControlRequestIds == 1..MaxControlRequests

\* One CacheControlMiddleware, or two stacked ones.
ControlLayers == {1, 2}

KwArg(key, val) == [key |-> key, val |-> val]

\* The overrides given to CacheControlMiddleware.
ControlKwargs ==
  { <<>>,
    <<KwArg("max_age", IntV(30))>>,
    <<KwArg("max_age", IntV(120))>>,
    <<KwArg("no_cache", BoolV(TRUE))>>,
    <<KwArg("max_stale", BoolV(FALSE))>>,
    <<KwArg("must_revalidate", BoolV(TRUE)), KwArg("max_age", IntV(60))>>,
    <<KwArg("stale_if_error", IntV(30)), KwArg("no_cache", BoolV(FALSE))>>,
    <<KwArg("public", BoolV(TRUE))>>,
    <<KwArg("private", BoolV(FALSE))>>,
    <<KwArg("max_age", IntV(30)), KwArg("public", BoolV(TRUE))>> }

CacheControl(fields) == <<"cache-control", fields>>

\* The header lists of the application's start events.
ControlHeaders ==
  { <<>>,
    <<ContentLength1>>,
    <<CacheControl(<< <<"max-age", "60">> >>)>>,
    <<CacheControl(<< <<"no-cache">> >>), ContentLength1>>,
    <<ContentLength1, CacheControl(<< <<"no-cache">>, <<"max-age", "60">> >>)>>,
    <<CacheControl(<< <<"max-stale", "60">> >>)>>,
    <<CacheControl(<< <<"max-age", "30">>, <<"must-revalidate">>, <<"max-stale", "60">> >>)>>,
    <<CacheControl(<< <<"no-cache">> >>), CacheControl(<< <<"no-store">> >>)>>,
    <<CacheControl(<< <<"max-age", "abc">> >>)>> }

ControlBodies == {BodyEvent("x", FALSE), BodyEvent("x", TRUE)}

InitControl == Start(MaxControlRequests, {<<120>>})

NextControl ==
  \/ \E i \in ControlRequestIds, kwargs \in ControlKwargs, layers \in ControlLayers :
       Quiet /\ CacheControlResponderCall(i, Request("GET", "/a", "", <<>>), kwargs, layers)
  \/ \E i \in ControlRequestIds, headers \in ControlHeaders :
       ControlAppSendStart(i, 200, headers)
  \/ \E i \in ControlRequestIds, event \in ControlBodies :
       ControlAppSendBody(i, event.body, event.more_body)
  \/ \E i \in ControlRequestIds : CacheControlResponder_send_with_caching(i)

SpecControl == InitControl /\ [][NextControl]_vars

---------------------------------------------------------------------------
\* SpecNested: two CacheMiddleware over one cache, one wrapping the other, as
\* when @cached decorates an endpoint of an application that has
\* CacheMiddleware.  The k-th request is handled by the outer CacheResponder at
\* index Outer(k); the application it calls is the inner CacheMiddleware, whose
\* CacheResponder is at index Inner(k) and whose send is the send callable the
\* outer one passed on.

NestedRequestIds == 1..MaxNestedRequests

Outer(k) == 2 * k - 1

Inner(k) == 2 * k

NestedRequests ==
  { Request("GET", "/a", "", <<>>),
    Request("HEAD", "/a", "", <<>>),
    Request("POST", "/a", "", <<>>) }

NestedStarts ==
  {StartEvent(200, <<ContentLength1>>), StartEvent(404, <<ContentLength1>>)}

NestedBodies == {BodyEvent("x", FALSE), BodyEvent("x", TRUE)}

\* The outer layer calls self.app, the inner CacheMiddleware, with the request.
InnerCall(k) ==
  /\ pc[Outer(k)] = "app"
  /\ CacheResponder_call(Inner(k), request[Outer(k)])

\* The inner layer's send: each event it delivers enters the send callable the
\* outer layer gave its application.
InnerSend(k) ==
  /\ Len(emitted[Outer(k)]) < Len(sent[Inner(k)])
  /\ AppSend(Outer(k), sent[Inner(k)][Len(emitted[Outer(k)]) + 1], 0)

InitNested == Start(2 * MaxNestedRequests, {<<120>>})

NextNested ==
  \/ \E k \in NestedRequestIds, r \in NestedRequests :
       /\ Quiet
       /\ \A j \in NestedRequestIds : j < k => pc[Outer(j)] # "idle"
       /\ CacheResponder_call(Outer(k), r)
  \/ \E k \in NestedRequestIds : InnerCall(k)
  \/ \E k \in NestedRequestIds : InnerSend(k)
  \/ \E i \in DOMAIN pc : get_cache_key(i)
  \/ \E i \in DOMAIN pc : cache_get(i)
  \/ \E i \in DOMAIN pc : ServeCached(i)
  \/ \E k \in NestedRequestIds, start \in NestedStarts :
       AppSendStart(Inner(k), start.status, start.headers)
  \/ \E k \in NestedRequestIds, event \in NestedBodies :
       AppSendBody(Inner(k), event.body, event.more_body, 0)
  \/ \E i \in DOMAIN pc : learn_cache_key(i)
  \/ \E i \in DOMAIN pc : cache_set(i)

SpecNested == InitNested /\ [][NextNested]_vars

---------------------------------------------------------------------------
\* SpecRules: requests served one after the other with a cache whose ttl is
\* None, 0 or 120, answered with responses that meet each rule of
\* store_in_cache, some of them with a max-age that int() cannot read.

MaxAgeAbc == <<"cache-control", << <<"max-age", "abc">> >> >>

RulesStarts ==
  { StartEvent(200, <<ContentLength1>>),
    StartEvent(200, <<ContentLength1, SetCookie>>),
    StartEvent(200, <<SetCookie, MaxAgeAbc>>),
    StartEvent(404, <<ContentLength1>>),
    StartEvent(404, <<MaxAgeAbc>>) }

RulesBodies == {BodyEvent("x", FALSE), BodyEvent("x", TRUE)}

InitRules == Start(MaxRequests, {<<>>, <<0>>, <<120>>})

NextRules ==
  \/ \E i \in Requests, r \in SpecRequests : Quiet /\ CacheResponderCall(i, r)
  \/ \E i \in Requests : get_cache_key(i)
  \/ \E i \in Requests : cache_get(i)
  \/ \E i \in Requests : ServeCached(i)
  \/ \E i \in Requests, start \in RulesStarts :
       AppSendStart(i, start.status, start.headers)
  \/ \E i \in Requests, event \in RulesBodies :
       AppSendBody(i, event.body, event.more_body, 0)
  \/ \E i \in Requests : learn_cache_key(i)
  \/ \E i \in Requests : cache_set(i)

SpecRules == InitRules /\ [][NextRules]_vars

---------------------------------------------------------------------------
\* SpecScope: calls with http, websocket and lifespan scopes, one after the
\* other, each made to a CacheMiddleware or to a CacheControlMiddleware.

LifespanScope == Request("", "", "", <<>>)

WebsocketScope == Request("", "/ws", "", <<>>)

Scopes ==
  { Request("GET", "/a", "", <<>>), Request("POST", "/a", "", <<>>),
    LifespanScope, WebsocketScope }

ScopeKwargs == {<<KwArg("max_age", IntV(30))>>}

\* The events an application sends on a websocket or a lifespan scope.
ScopeEvents(scope) ==
  IF ScopeType(scope) = "websocket"
  THEN {"websocket.accept", "websocket.close"}
  ELSE {"lifespan.startup.complete", "lifespan.shutdown.complete"}

ScopeEvent(type) == [NoMessage EXCEPT !.type = type]

\* await self.app(scope, receive, send); return
PassThrough(i, scope) ==
  /\ pc[i] = "idle"
  /\ request' = [request EXCEPT ![i] = scope]
  /\ app_send' = [app_send EXCEPT ![i] = "send"]
  /\ pc' = [pc EXCEPT ![i] = "app"]
  /\ UNCHANGED <<store, ttl, responder, frame, emitted, sent, ops, lookup>>

CacheMiddleware_call(i, scope) ==
  IF IsHttp(scope) THEN CacheResponder_call(i, scope) ELSE PassThrough(i, scope)

CacheControlMiddleware_call(i, scope, kwargs) ==
  IF IsHttp(scope)
  THEN CacheControlResponderCall(i, scope, kwargs, 1)
  ELSE PassThrough(i, scope)

\* The application of a websocket or lifespan scope sends an event.
ScopeAppSend(i, type) ==
  /\ ScopeType(request[i]) # "http"
  /\ Len(emitted[i]) <= MaxChunks
  /\ AppSend(i, ScopeEvent(type), 0)

\* The application of a websocket or lifespan scope returns.
ScopeAppReturn(i) ==
  /\ pc[i] = "app"
  /\ ScopeType(request[i]) # "http"
  /\ pc' = [pc EXCEPT ![i] = "done"]
  /\ UNCHANGED <<store, ttl, request, responder, frame, app_send, emitted,
                 sent, ops, lookup>>

\* The application of request i was called by a CacheResponder, or by
\* CacheMiddleware for a method that is not cachable.
UnderCache(i) ==
  ScopeType(request[i]) = "http" /\ app_send[i] \in {"send", "send_with_caching"}

UnderCacheControl(i) == app_send[i] = "CacheControlResponder.send_with_caching"

ScopeStarts ==
  {StartEvent(200, <<ContentLength1>>), StartEvent(200, <<MaxAge60>>)}

ScopeBodies == {BodyEvent("x", FALSE), BodyEvent("x", TRUE)}

InitScope == Start(MaxRequests, {<<120>>})

NextScope ==
  \/ \E i \in Requests, scope \in Scopes :
       /\ Quiet
       /\ \A j \in Requests : j < i => pc[j] # "idle"
       /\ CacheMiddleware_call(i, scope)
  \/ \E i \in Requests, scope \in Scopes, kwargs \in ScopeKwargs :
       /\ Quiet
       /\ \A j \in Requests : j < i => pc[j] # "idle"
       /\ CacheControlMiddleware_call(i, scope, kwargs)
  \/ \E i \in Requests : \E type \in ScopeEvents(request[i]) : ScopeAppSend(i, type)
  \/ \E i \in Requests : ScopeAppReturn(i)
  \/ \E i \in Requests : get_cache_key(i)
  \/ \E i \in Requests : cache_get(i)
  \/ \E i \in Requests : ServeCached(i)
  \/ \E i \in Requests, start \in ScopeStarts :
       UnderCache(i) /\ AppSendStart(i, start.status, start.headers)
  \/ \E i \in Requests, event \in ScopeBodies :
       UnderCache(i) /\ AppSendBody(i, event.body, event.more_body, 0)
  \/ \E i \in Requests : learn_cache_key(i)
  \/ \E i \in Requests : cache_set(i)
  \/ \E i \in Requests, start \in ScopeStarts :
       UnderCacheControl(i) /\ ControlAppSendStart(i, start.status, start.headers)
  \/ \E i \in Requests, event \in ScopeBodies :
       UnderCacheControl(i) /\ ControlAppSendBody(i, event.body, event.more_body)
  \/ \E i \in Requests : CacheControlResponder_send_with_caching(i)

SpecScope == InitScope /\ [][NextScope]_vars

---------------------------------------------------------------------------
\* SpecPaths: GET requests to two URL paths, one of them with or without a
\* query string and with or without an Accept-Encoding header, answered with or
\* without "Vary: Accept-Encoding" and served one after the other.

PathsRequests ==
  { Request("GET", "/a", "", <<>>),
    Request("GET", "/a", "", << <<"accept-encoding", "gzip">> >>),
    Request("GET", "/a", "q=1", <<>>),
    Request("GET", "/b", "", <<>>) }

PathsStarts ==
  { StartEvent(200, <<ContentLength1>>),
    StartEvent(200, <<ContentLength1, VaryAcceptEncoding>>),
    StartEvent(404, <<ContentLength1>>) }

PathsBodies == {BodyEvent("x", FALSE), BodyEvent("y", FALSE)}

InitPaths == Start(MaxVaryRequests, {<<120>>})

NextPaths ==
  \/ \E i \in VaryRequestIds, r \in PathsRequests : Quiet /\ CacheResponderCall(i, r)
  \/ \E i \in VaryRequestIds : get_cache_key(i)
  \/ \E i \in VaryRequestIds : cache_get(i)
  \/ \E i \in VaryRequestIds : ServeCached(i)
  \/ \E i \in VaryRequestIds, start \in PathsStarts :
       AppSendStart(i, start.status, start.headers)
  \/ \E i \in VaryRequestIds, event \in PathsBodies :
       AppSendBody(i, event.body, event.more_body, 0)
  \/ \E i \in VaryRequestIds : learn_cache_key(i)
  \/ \E i \in VaryRequestIds : cache_set(i)

SpecPaths == InitPaths /\ [][NextPaths]_vars

---------------------------------------------------------------------------
\* SpecConcurrent: requests in flight together through one CacheMiddleware.
\* Each await (a store call, the application's next event) is a point where
\* the handling of another request may run.

ConcurrentRequests ==
  { Request("GET", "/a", "", <<>>),
    Request("HEAD", "/a", "", <<>>),
    Request("GET", "/b", "", <<>>) }

ConcurrentStarts ==
  { StartEvent(200, <<ContentLength1>>),
    StartEvent(200, <<ContentLength1, VaryAcceptEncoding>>) }

ConcurrentBodies == {BodyEvent("x", FALSE)}

InitConcurrent == Start(MaxRequests, {<<120>>})

NextConcurrent ==
  \/ \E i \in Requests, r \in ConcurrentRequests : CacheResponderCall(i, r)
  \/ \E i \in Requests : get_cache_key(i)
  \/ \E i \in Requests : cache_get(i)
  \/ \E i \in Requests : ServeCached(i)
  \/ \E i \in Requests, start \in ConcurrentStarts :
       AppSendStart(i, start.status, start.headers)
  \/ \E i \in Requests, event \in ConcurrentBodies :
       AppSendBody(i, event.body, event.more_body, 0)
  \/ \E i \in Requests : learn_cache_key(i)
  \/ \E i \in Requests : cache_set(i)

SpecConcurrent == InitConcurrent /\ [][NextConcurrent]_vars

---------------------------------------------------------------------------
\* SpecKey: GET and HEAD requests to one URL, with Accept-Encoding and
\* Accept-Language headers in either order and with or without another header,
\* answered with a Vary header that names the two in either order and case, or
\* one of them twice.

AcceptGzip == <<"accept-encoding", "gzip">>

AcceptFrench == <<"accept-language", "fr">>

KeyRequests ==
  { Request(method, "/a", "", headers) :
      method \in {"GET", "HEAD"},
      headers \in { <<>>,
                    <<AcceptGzip, AcceptFrench>>,
                    <<AcceptFrench, <<"x-other", "1">>, AcceptGzip>>,
                    <<AcceptFrench>> } }

KeyStarts ==
  { StartEvent(200, <<ContentLength1>>),
    StartEvent(200, <<ContentLength1,
                      <<"vary", << <<"Accept-Encoding">>, <<"Accept-Language">> >> >> >>),
    StartEvent(200, <<ContentLength1,
                      <<"vary", << <<"accept-language">>, <<"Accept-Encoding">> >> >> >>),
    StartEvent(200, <<ContentLength1,
                      <<"vary", << <<"Accept-Encoding">>, <<"accept-encoding">> >> >> >>) }

KeyBodies == {BodyEvent("x", FALSE)}

InitKey == Start(MaxRequests, {<<120>>})

NextKey ==
  \/ \E i \in Requests, r \in KeyRequests : Quiet /\ CacheResponderCall(i, r)
  \/ \E i \in Requests : get_cache_key(i)
  \/ \E i \in Requests : cache_get(i)
  \/ \E i \in Requests : ServeCached(i)
  \/ \E i \in Requests, start \in KeyStarts :
       AppSendStart(i, start.status, start.headers)
  \/ \E i \in Requests, event \in KeyBodies :
       AppSendBody(i, event.body, event.more_body, 0)
  \/ \E i \in Requests : learn_cache_key(i)
  \/ \E i \in Requests : cache_set(i)

SpecKey == InitKey /\ [][NextKey]_vars

---------------------------------------------------------------------------
\* SpecIsolation: requests in flight together through one CacheMiddleware,
\* answered with responses that are stored, refused or streamed.

IsolationRequests ==
  {Request("GET", "/a", "", <<>>), Request("GET", "/b", "", <<>>)}

IsolationStarts ==
  {StartEvent(200, <<ContentLength1>>), StartEvent(404, <<>>)}

IsolationBodies ==
  {BodyEvent("x", FALSE), BodyEvent("y", FALSE), BodyEvent("y", TRUE)}

InitIsolation == Start(MaxRequests, {<<120>>})

NextIsolation ==
  \/ \E i \in Requests, r \in IsolationRequests : CacheResponderCall(i, r)
  \/ \E i \in Requests : get_cache_key(i)
  \/ \E i \in Requests : cache_get(i)
  \/ \E i \in Requests : ServeCached(i)
  \/ \E i \in Requests, start \in IsolationStarts :
       AppSendStart(i, start.status, start.headers)
  \/ \E i \in Requests, event \in IsolationBodies :
       AppSendBody(i, event.body, event.more_body, 0)
  \/ \E i \in Requests : learn_cache_key(i)
  \/ \E i \in Requests : cache_set(i)

SpecIsolation == InitIsolation /\ [][NextIsolation]_vars

---------------------------------------------------------------------------
\* SpecRace: requests for one URL in flight together through one
\* CacheMiddleware, and a last request that arrives when the others are over.

RaceRequests ==
  { Request("GET", "/a", "", <<>>),
    Request("GET", "/a", "", << <<"accept-encoding", "gzip">> >>) }

RaceStarts ==
  { StartEvent(200, <<ContentLength1>>),
    StartEvent(200, <<ContentLength1, VaryAcceptEncoding>>) }

RaceBodies == {BodyEvent("x", FALSE), BodyEvent("y", FALSE)}

\* The request that arrives last.
Last == MaxVaryRequests

InitRace == Start(MaxVaryRequests, {<<120>>})

NextRace ==
  \/ \E i \in VaryRequestIds, r \in RaceRequests :
       /\ i = Last => Quiet
       /\ CacheResponderCall(i, r)
  \/ \E i \in VaryRequestIds : get_cache_key(i)
  \/ \E i \in VaryRequestIds : cache_get(i)
  \/ \E i \in VaryRequestIds : ServeCached(i)
  \/ \E i \in VaryRequestIds, start \in RaceStarts :
       AppSendStart(i, start.status, start.headers)
  \/ \E i \in VaryRequestIds, event \in RaceBodies :
       AppSendBody(i, event.body, event.more_body, 0)
  \/ \E i \in VaryRequestIds : learn_cache_key(i)
  \/ \E i \in VaryRequestIds : cache_set(i)

SpecRace == InitRace /\ [][NextRace]_vars

---------------------------------------------------------------------------
\* SpecStoreFailure: requests served one after the other by a store whose
\* calls may fail (it is not connected, or it cannot be reached).

\* The store call the handling of request i is about to make.
PendingStoreCall(i) ==
  CASE pc[i] = "get_cache_key" ->
         <<"get", generate_varying_headers_cache_key(request[i])>>
    [] pc[i] = "cache_get" -> <<"get", frame[i].cache_key>>
    [] pc[i] = "learn_cache_key" ->
         <<"set", generate_varying_headers_cache_key(request[i])>>
    [] pc[i] = "cache_set" -> <<"set", frame[i].cache_key>>

AtStoreCall(i) ==
  pc[i] \in {"get_cache_key", "cache_get", "learn_cache_key", "cache_set"}

\* Mutant: a store call that failed is made again.
StoreCallFails_Retried(i) ==
  /\ AtStoreCall(i)
  /\ Len(ops[i]) < 6
  /\ ops' = [ops EXCEPT ![i] = Append(@, <<"failed", PendingStoreCall(i)>>)]
  /\ UNCHANGED <<store, ttl, request, pc, responder, frame, app_send, emitted,
                 sent, lookup>>

\* await cache.get(...) or await cache.set(...) raises.  get_from_cache,
\* store_in_cache, CacheResponder.__call__ and send_with_caching catch
\* RequestNotCachable and ResponseNotCachable only: what the store raises goes
\* up to the caller, through the application when the call was a write.
StoreCallFails(i) ==
  /\ AtStoreCall(i)
  /\ ops' = [ops EXCEPT ![i] = Append(@, <<"failed", PendingStoreCall(i)>>)]
  /\ pc' = [pc EXCEPT ![i] = "raised"]
  /\ UNCHANGED <<store, ttl, request, responder, frame, app_send, emitted,
                 sent, lookup>>

FailureRequests ==
  {Request("GET", "/a", "", <<>>), Request("HEAD", "/a", "", <<>>)}

FailureStarts ==
  {StartEvent(200, <<ContentLength1>>), StartEvent(404, <<ContentLength1>>)}

FailureBodies == {BodyEvent("x", FALSE), BodyEvent("x", TRUE)}

InitStoreFailure == Start(MaxVaryRequests, {<<120>>})

NextStoreFailure ==
  \/ \E i \in VaryRequestIds, r \in FailureRequests : Quiet /\ CacheResponderCall(i, r)
  \/ \E i \in VaryRequestIds : get_cache_key(i)
  \/ \E i \in VaryRequestIds : cache_get(i)
  \/ \E i \in VaryRequestIds : ServeCached(i)
  \/ \E i \in VaryRequestIds, start \in FailureStarts :
       AppSendStart(i, start.status, start.headers)
  \/ \E i \in VaryRequestIds, event \in FailureBodies :
       AppSendBody(i, event.body, event.more_body, 0)
  \/ \E i \in VaryRequestIds : learn_cache_key(i)
  \/ \E i \in VaryRequestIds : cache_set(i)
  \/ \E i \in VaryRequestIds : StoreCallFails(i)

SpecStoreFailure == InitStoreFailure /\ [][NextStoreFailure]_vars

---------------------------------------------------------------------------
\* SpecExpiry: requests in flight together over a store that drops entries:
\* every entry is written with the cache's ttl and expires when it has run
\* out, and the store may evict an entry before that.

\* The store no longer holds `key`: cache.get(key) returns None from now on.
Expire(key) ==
  /\ key \in DOMAIN store
  /\ store' = [k \in (DOMAIN store) \ {key} |-> store[k]]
  /\ UNCHANGED <<ttl, request, pc, responder, frame, app_send, emitted, sent,
                 ops, lookup>>

ExpiryRequests ==
  {Request("GET", "/a", "", <<>>), Request("GET", "/a", "q=1", <<>>)}

ExpiryStarts == {StartEvent(200, <<ContentLength1>>)}

ExpiryBodies == {BodyEvent("x", FALSE)}

InitExpiry == Start(MaxRequests, {<<120>>})

NextExpiry ==
  \/ \E i \in Requests, r \in ExpiryRequests : CacheResponderCall(i, r)
  \/ \E i \in Requests : get_cache_key(i)
  \/ \E i \in Requests : cache_get(i)
  \/ \E i \in Requests : ServeCached(i)
  \/ \E i \in Requests, start \in ExpiryStarts :
       AppSendStart(i, start.status, start.headers)
  \/ \E i \in Requests, event \in ExpiryBodies :
       AppSendBody(i, event.body, event.more_body, 0)
  \/ \E i \in Requests : learn_cache_key(i)
  \/ \E i \in Requests : cache_set(i)
  \/ \E key \in DOMAIN store : Expire(key)

SpecExpiry == InitExpiry /\ [][NextExpiry]_vars

---------------------------------------------------------------------------
\* SpecInjective: get_from_cache derives the response keys of two requests for
\* one URL over a store that holds the vary index of the URL path.  The
\* requests carry, or not, the headers the index names, with values that are
\* empty or not.

\* The header lists of the requests: each header absent or with one of its
\* values.
InjectiveHeaders ==
  { e \o l :
      e \in {<<>>} \cup {<< <<"accept-encoding", v>> >> : v \in {"", "a", "ab"}},
      l \in {<<>>} \cup {<< <<"accept-language", v>> >> : v \in {"", "c", "bc"}} }

\* The lists the vary index may hold.
InjectiveIndexes ==
  {<<"accept-encoding">>, <<"accept-encoding", "accept-language">>}

InitInjective ==
  \E first \in InjectiveHeaders, second \in InjectiveHeaders,
     varying_headers \in InjectiveIndexes :
    /\ store = [k \in {<<"varying_headers", "/a">>} |-> varying_headers]
    /\ ttl = <<120>>
    /\ request = [i \in Requests |->
                    Request("GET", "/a", "", IF i = 1 THEN first ELSE second)]
    /\ pc = [i \in Requests |-> "get_cache_key"]
    /\ responder = [i \in Requests |-> NewResponder]
    /\ frame = [i \in Requests |-> [NewFrame EXCEPT !.method = "GET"]]
    /\ app_send = [i \in Requests |-> ""]
    /\ emitted = [i \in Requests |-> <<>>]
    /\ sent = [i \in Requests |-> <<>>]
    /\ ops = [i \in Requests |-> <<>>]
    /\ lookup = [i \in Requests |-> ""]

NextInjective ==
  \/ \E i \in Requests : get_cache_key(i)
  \/ \E i \in Requests : cache_get(i)

SpecInjective == InitInjective /\ [][NextInjective]_vars

---------------------------------------------------------------------------
\* SpecFresh: requests served one after the other with a cache whose ttl is
\* None or 120, answered with responses that carry, or not, an Expires header
\* and a Cache-Control header, at different times of the clock.

\* An Expires header the application set (its date is not looked at).
ExpiresSet == <<"expires", << <<"Thu 01 Jan 1970 00:00:00 GMT">> >> >>

FreshStarts ==
  { StartEvent(200, <<ContentLength1>>),
    StartEvent(200, <<ContentLength1, MaxAge60>>),
    StartEvent(200, <<ExpiresSet, ContentLength1>>),
    StartEvent(304, <<NoCache, ExpiresSet>>),
    StartEvent(404, <<ContentLength1>>) }

FreshBodies == {BodyEvent("x", FALSE), BodyEvent("x", TRUE)}

\* What time.time() returns, in seconds.
FreshTimes == {0, 7}

FreshRequests ==
  {Request("GET", "/a", "", <<>>), Request("GET", "/b", "", <<>>)}

InitFresh == Start(MaxRequests, {<<>>, <<120>>})

NextFresh ==
  \/ \E i \in Requests, r \in FreshRequests : Quiet /\ CacheResponderCall(i, r)
  \/ \E i \in Requests : get_cache_key(i)
  \/ \E i \in Requests : cache_get(i)
  \/ \E i \in Requests : ServeCached(i)
  \/ \E i \in Requests, start \in FreshStarts :
       AppSendStart(i, start.status, start.headers)
  \/ \E i \in Requests, event \in FreshBodies, time \in FreshTimes :
       AppSendBody(i, event.body, event.more_body, time)
  \/ \E i \in Requests : learn_cache_key(i)
  \/ \E i \in Requests : cache_set(i)

SpecFresh == InitFresh /\ [][NextFresh]_vars

---------------------------------------------------------------------------
\* What the claims speak of.

Handled == {i \in DOMAIN pc : pc[i] # "idle"}

\* The store calls of request i that write.
Writes(i) == {k \in 1..Len(ops[i]) : ops[i][k][1] = "set"}

\* Request i ran store_in_cache to its end.
Stored(i) == pc[i] = "done" /\ Writes(i) # {}

\* The application was called for request i (it has sent its start event).
Invoked(i) == emitted[i] # <<>>

\* The application's response to request i streams: a body event of it
\* announced more_body.
Streams(i) ==
  \E k \in 1..Len(emitted[i]) :
    emitted[i][k].type = "http.response.body" /\ emitted[i][k].more_body

\* Two events that differ at most in their headers.
SameButHeaders(a, b) ==
  /\ a.type = b.type
  /\ a.status = b.status
  /\ a.body = b.body
  /\ a.more_body = b.more_body

\* C1: on the miss path of a cachable request, the events delivered downstream
\* are at every moment the first events the application sent, each once and in
\* the application's order (so the start event comes first), and when the
\* handling is over every event the application sent has been delivered,
\* whether the response was stored, refused or streamed.
C1_EveryEventForwardedOnceInOrder ==
  \A i \in Handled :
    lookup[i] = "MISS" =>
      /\ Len(sent[i]) <= Len(emitted[i])
      /\ \A k \in 1..Len(sent[i]) : SameButHeaders(sent[i][k], emitted[i][k])
      /\ pc[i] = "done" => Len(sent[i]) = Len(emitted[i])

\* C1: two misses are over, one whose response was stored and one whose
\* response streamed.
C1_Witness ==
  \E i, j \in Handled :
    /\ lookup[i] = "MISS" /\ Stored(i) /\ Len(sent[i]) = 2
    /\ lookup[j] = "MISS" /\ pc[j] = "done" /\ Streams(j) /\ Len(sent[j]) = 3

\* The response delivered downstream for request i: status, headers, body.
Delivered(i) ==
  [status |-> sent[i][1].status, headers |-> sent[i][1].headers,
   body |-> sent[i][Len(sent[i])].body]

\* C2: after a GET request whose response was stored, an identical GET request
\* is a hit: the application is not called, and the status, headers and body
\* served are those delivered for the first request.
C2_RepeatServedFromStoreUnchanged ==
  \A i, j \in Handled :
    (/\ i < j
     /\ request[i].method = "GET"
     /\ request[j] = request[i]
     /\ Stored(i)
     /\ pc[j] = "done")
    => /\ lookup[j] = "HIT"
       /\ ~Invoked(j)
       /\ Delivered(j) = Delivered(i)

\* C3: a request whose method is neither GET nor HEAD makes no store call, its
\* application is called with the original send, every event reaches the client
\* as the application sent it, and each such request calls the application.
C3_NonCachableMethodPassesThrough ==
  \A i \in Handled :
    request[i].method \notin {"GET", "HEAD"} =>
      /\ ops[i] = <<>>
      /\ app_send[i] = "send"
      /\ sent[i] = emitted[i]
      /\ pc[i] = "done" => Invoked(i)

\* C3: two POST requests are over and the application answered both.
C3_Witness ==
  \E i, j \in Handled :
    /\ i # j
    /\ request[i].method = "POST" /\ request[j].method = "POST"
    /\ pc[i] = "done" /\ pc[j] = "done"
    /\ Len(sent[i]) >= 2 /\ Len(sent[j]) >= 2

\* The application answered request i with a status other than 200 and 304.
BadStatus(i) == Invoked(i) /\ emitted[i][1].status \notin {200, 304}

\* C4: a response whose status is neither 200 nor 304 causes no store write,
\* and as long as every response to a URL had such a status, each cachable
\* request to that URL calls the application.
C4_BadStatusNeverStored ==
  \A j \in Handled :
    /\ BadStatus(j) => Writes(j) = {}
    /\ (/\ pc[j] = "done"
        /\ request[j].method \in {"GET", "HEAD"}
        /\ \A i \in Handled :
             i < j /\ AbsoluteUrl(request[i]) = AbsoluteUrl(request[j]) => BadStatus(i))
       => Invoked(j)

\* C4: two GET requests to one URL are over, both answered 404 by the
\* application.
C4_Witness ==
  \E i, j \in Handled :
    /\ i < j
    /\ request[i].method = "GET" /\ request[j] = request[i]
    /\ pc[i] = "done" /\ pc[j] = "done"
    /\ BadStatus(i) /\ BadStatus(j)

\* C5: a response that has announced more_body causes no store write, whatever
\* follows, and the same request made next calls the application again.
C5_StreamingNeverStored ==
  \A i \in Handled :
    Streams(i) =>
      /\ Writes(i) = {}
      /\ \A j \in Handled :
           j = i + 1 /\ request[j] = request[i] /\ pc[j] = "done" => Invoked(j)

\* C5: a cachable request's response streamed to its end, and the same request,
\* made next, is over.
C5_Witness ==
  \E i, j \in Handled :
    /\ j = i + 1 /\ request[j] = request[i]
    /\ lookup[i] = "MISS" /\ Streams(i) /\ pc[i] = "done"
    /\ ~emitted[i][Len(emitted[i])].more_body
    /\ pc[j] = "done"

\* Streaming was detected for request i: on the miss path, the first body
\* event announced more_body.
StreamingDetected(i) ==
  /\ lookup[i] = "MISS"
  /\ Len(emitted[i]) >= 2
  /\ emitted[i][2].more_body

\* C6: from the moment streaming is detected, what was delivered downstream is
\* exactly what the application sent (the start event with its own headers,
\* then each body event, none held back), and is_response_cachable is false,
\* for the rest of the response.
C6_StreamingForwardedVerbatim ==
  \A i \in Handled :
    StreamingDetected(i) =>
      /\ sent[i] = emitted[i]
      /\ ~responder[i].is_response_cachable

\* C6: a streamed response, with headers of its own, was delivered to its last
\* body event.
C6_Witness ==
  \E i \in Handled :
    /\ StreamingDetected(i)
    /\ pc[i] = "done"
    /\ Len(sent[i]) = 3
    /\ sent[i][1].headers # <<>>

\* The application answered the cookie-less request i with a Set-Cookie header.
CookieForCookieless(i) ==
  /\ Invoked(i)
  /\ ~RequestHeaderHas(request[i].headers, "cookie")
  /\ HeaderHas(emitted[i][1].headers, "set-cookie")

\* C7: a response with Set-Cookie to a request without cookies causes no store
\* write, and the same request made next calls the application too.
C7_CookieForCookielessNeverStored ==
  \A i \in Handled :
    CookieForCookieless(i) =>
      /\ Writes(i) = {}
      /\ \A j \in Handled :
           j = i + 1 /\ request[j] = request[i] /\ pc[j] = "done" => Invoked(j)

\* C7: two consecutive cookie-less GET requests are over, both answered with
\* Set-Cookie in one final body event.
C7_Witness ==
  \E i, j \in Handled :
    /\ j = i + 1 /\ request[j] = request[i]
    /\ request[i].method = "GET"
    /\ CookieForCookieless(i) /\ CookieForCookieless(j)
    /\ ~Streams(i) /\ ~Streams(j)
    /\ emitted[i][1].status = 200 /\ emitted[j][1].status = 200
    /\ pc[i] = "done" /\ pc[j] = "done"

\* C8: with a ttl of 0 the store is never written: it stays empty, and every
\* response that reaches store_in_cache is refused there.
C8_ZeroTtlNeverStores ==
  ttl = <<0>> =>
    /\ DOMAIN store = {}
    /\ \A i \in Handled : Writes(i) = {}
    /\ \A i \in Handled :
         lookup[i] = "MISS" /\ pc[i] = "done" => ~responder[i].is_response_cachable

\* C8: with a ttl of 0, a cookie-less GET request answered 200 in one final
\* body event is over.
C8_Witness ==
  /\ ttl = <<0>>
  /\ \E i \in Handled :
       /\ request[i].method = "GET"
       /\ pc[i] = "done"
       /\ emitted[i][1].status = 200
       /\ ~Streams(i)
       /\ Len(sent[i]) = 2

\* The max-age directives of a header list's Cache-Control.
MaxAgeFields(headers) ==
  LET fields == HeaderGet(headers, "cache-control", <<>>)
  IN {fields[k] : k \in {n \in 1..Len(fields) : fields[n][1] = "max-age"}}

\* C9: when a response that came without a max-age directive is stored, the
\* start event delivered carries one max-age directive: the ttl when the ttl is
\* a positive number (120 here), 31536000 when the ttl is None.
C9_MaxAgeIsTtlOrOneYear ==
  \A i \in Handled :
    Stored(i) /\ MaxAgeFields(emitted[i][1].headers) = {} =>
      /\ ttl = <<120>> => MaxAgeFields(sent[i][1].headers) = {<<"max-age", "120">>}
      /\ ttl = <<>> => MaxAgeFields(sent[i][1].headers) = {<<"max-age", "31536000">>}

\* C9: with a ttl of None, a response whose Cache-Control has no max-age was
\* stored and delivered.
C9_Witness ==
  /\ ttl = <<>>
  /\ \E i \in Handled :
       /\ Stored(i)
       /\ HeaderHas(emitted[i][1].headers, "cache-control")
       /\ MaxAgeFields(emitted[i][1].headers) = {}
       /\ Len(sent[i]) = 2

\* Request i was a miss whose response, listing Accept-Encoding in its Vary,
\* was stored.
StoredVarying(i) ==
  /\ lookup[i] = "MISS"
  /\ Stored(i)
  /\ \E n \in 1..Len(VaryingHeaders(emitted[i][1].headers)) :
       VaryingHeaders(emitted[i][1].headers)[n] = "accept-encoding"

\* Requests i and j = i + 1 go to the same URL and differ only in the value of
\* their Accept-Encoding header, and no request before j was j's.
DifferInVaryingHeader(i, j) ==
  /\ j = i + 1
  /\ request[i].method = request[j].method
  /\ AbsoluteUrl(request[i]) = AbsoluteUrl(request[j])
  /\ Len(request[i].headers) = 1 /\ Len(request[j].headers) = 1
  /\ request[i].headers[1][1] = "accept-encoding"
  /\ request[j].headers[1][1] = "accept-encoding"
  /\ request[i].headers[1][2] # request[j].headers[1][2]
  /\ \A e \in Handled : e < j => request[e] # request[j]

\* C10: of two requests that differ only in the value of a header the stored
\* response's Vary lists, the second is a miss that calls the application; once
\* its response (same Vary) is stored too the store holds one entry for each,
\* and a third request repeating either is a hit, served the entry stored for
\* its header value without the application being called.
C10_VaryingHeaderSeparatesEntries ==
  \A i, j \in Handled :
    StoredVarying(i) /\ DifferInVaryingHeader(i, j) =>
      /\ pc[j] = "done" => lookup[j] = "MISS" /\ Invoked(j)
      /\ StoredVarying(j) =>
           /\ frame[i].cache_key # frame[j].cache_key
           /\ \A k \in Handled :
                (k = j + 1 /\ pc[k] = "done" /\ request[k] \in {request[i], request[j]})
                => LET m == IF request[k] = request[i] THEN i ELSE j
                   IN /\ lookup[k] = "HIT"
                      /\ ~Invoked(k)
                      /\ store[frame[m].cache_key] = serialize_response(frame[m].response)
                      /\ frame[k].response = deserialize_response(store[frame[m].cache_key])
                      /\ sent[k][2].body = sent[m][2].body

\* C10: gzip and identity responses with different bodies were stored one after
\* the other, and a third request, for gzip again, was served from the store.
C10_Witness ==
  \E i, j, k \in Handled :
    /\ StoredVarying(i) /\ DifferInVaryingHeader(i, j) /\ StoredVarying(j)
    /\ sent[i][2].body # sent[j][2].body
    /\ k = j + 1 /\ request[k] = request[i]
    /\ pc[k] = "done" /\ lookup[k] = "HIT"

\* Request j has request i's absolute URL and the same values for the headers
\* the response stored for request i varies on.
SameUrlAndFingerprint(i, j) ==
  /\ AbsoluteUrl(request[j]) = AbsoluteUrl(request[i])
  /\ CtxInput(request[j].headers, VaryingHeaders(emitted[i][1].headers))
       = CtxInput(request[i].headers, VaryingHeaders(emitted[i][1].headers))

\* C11: after a GET request's response was stored, a later HEAD request to the
\* same URL with the same vary fingerprint is a hit and the application is not
\* called for it.
C11_HeadServedFromGetEntry ==
  \A i, j \in Handled :
    (/\ i < j
     /\ request[i].method = "GET" /\ Stored(i)
     /\ request[j].method = "HEAD" /\ SameUrlAndFingerprint(i, j)
     /\ pc[j] = "done")
    => lookup[j] = "HIT" /\ ~Invoked(j)

\* C11: a GET request's response was stored and a HEAD request to the same URL
\* was then served the body stored for the GET request.
C11_Witness ==
  \E i, j \in Handled :
    /\ i < j
    /\ request[i].method = "GET" /\ Stored(i)
    /\ request[j].method = "HEAD" /\ SameUrlAndFingerprint(i, j)
    /\ pc[j] = "done" /\ lookup[j] = "HIT"
    /\ sent[j][2].body = sent[i][2].body

\* C12: after a HEAD request's response was stored, a later GET request to the
\* same URL with the same vary fingerprint is answered from the store without
\* the application being called.
C12_GetServedFromHeadEntry ==
  \A i, j \in Handled :
    (/\ i < j
     /\ request[i].method = "HEAD" /\ Stored(i)
     /\ request[j].method = "GET" /\ SameUrlAndFingerprint(i, j)
     /\ pc[j] = "done")
    => lookup[j] = "HIT" /\ ~Invoked(j)

\* C12: a HEAD request's response was stored and a GET request to the same URL
\* was then served from the store, from the HEAD key.
C12_Witness ==
  \E i, j \in Handled :
    /\ i < j
    /\ request[i].method = "HEAD" /\ Stored(i)
    /\ request[j].method = "GET" /\ SameUrlAndFingerprint(i, j)
    /\ pc[j] = "done" /\ lookup[j] = "HIT"
    /\ frame[j].cache_key[2] = "HEAD"

\* The positions in request i's store calls that read a response key of the
\* given method variant.
ResponseKeyReads(i, method) ==
  {k \in 1..Len(ops[i]) :
     /\ ops[i][k][1] = "get"
     /\ ops[i][k][2][1] = "cache_page"
     /\ ops[i][k][2][2] = method}

\* C13 as stated: a GET request never reads a HEAD-variant key.
C13_GetNeverReadsHeadKey ==
  \A i \in Handled :
    request[i].method = "GET" => ResponseKeyReads(i, "HEAD") = {}

\* C13: the HEAD-variant key is read only after a miss at the GET-variant key of
\* the same URL and fingerprint, and every cachable request, GET or HEAD, that
\* missed at the GET-variant key and went on to call the application has read
\* the HEAD-variant key too.
C13_EveryMissAtGetKeyFallsBackToHeadKey ==
  \A i \in Handled :
    /\ \A k \in ResponseKeyReads(i, "HEAD") :
         /\ k >= 3
         /\ (k - 2) \in ResponseKeyReads(i, "GET")
         /\ ops[i][k - 2][2][3] = ops[i][k][2][3]
         /\ ops[i][k - 2][2][4] = ops[i][k][2][4]
    /\ (lookup[i] = "MISS" /\ ResponseKeyReads(i, "GET") # {})
       => ResponseKeyReads(i, "HEAD") # {}

\* C13: a GET request that found nothing at the GET-variant key read the
\* HEAD-variant key, found nothing there either, and called the application.
C13_Witness ==
  \E i \in Handled :
    /\ request[i].method = "GET"
    /\ lookup[i] = "MISS" /\ Invoked(i)
    /\ ResponseKeyReads(i, "GET") # {}
    /\ ResponseKeyReads(i, "HEAD") # {}
    /\ pc[i] = "done"

\* C14: whatever the response (status, headers with or without repeated
\* names, body), deserializing its serialized form gives back a response with
\* the same status, headers and body.
C14_CodecRoundTripExact ==
  pc[2] = "done" => frame[2].response = frame[1].response

\* The overrides of request i's CacheControlResponder and the Cache-Control
\* fields of the start event the application sent.
OverridesOf(i) == responder[i].kwargs

ExistingFields(i) == HeaderGet(emitted[i][1].headers, "cache-control", <<>>)

\* The first layer's send_with_caching has returned from patch_cache_control
\* on request i's start event.
PatchedOnce(i) == Len(frame[i].patched) >= 1

\* The integer values of the max-age fields among fields, and of the max_age
\* override among kwargs.
MaxAgeValues(fields) ==
  {ParseInt(fields[k][2]) :
     k \in {n \in 1..Len(fields) :
              /\ Len(fields[n]) = 2
              /\ fields[n][1] = "max-age"
              /\ IsNumber(fields[n][2])}}

MaxAgeOverrides(kwargs) ==
  {kwargs[k].val.n :
     k \in {n \in 1..Len(kwargs) : kwargs[n].key = "max_age" /\ kwargs[n].val.t = "int"}}

\* C15: when the start event's Cache-Control gives max-age a number and the
\* overrides give max_age a number, the patched Cache-Control has exactly one
\* max-age directive and its value is the smaller of the two numbers.
C15_MaxAgeIsTheMinimum ==
  \A i \in Handled :
    PatchedOnce(i) =>
      \A e \in MaxAgeValues(ExistingFields(i)) :
        \A o \in MaxAgeOverrides(OverridesOf(i)) :
          /\ MaxAgeFields(frame[i].patched[1]) \subseteq {<<"max-age", Str(e)>>, <<"max-age", Str(o)>>}
          /\ Cardinality(MaxAgeFields(frame[i].patched[1])) = 1
          /\ \A f \in MaxAgeFields(frame[i].patched[1]) :
               ParseInt(f[2]) <= e /\ ParseInt(f[2]) <= o

\* C15: an existing max-age=60 met an override of 120 and the start event was
\* delivered with max-age=60.
C15_Witness ==
  \E i \in Handled :
    /\ Invoked(i)
    /\ MaxAgeValues(ExistingFields(i)) = {60}
    /\ MaxAgeOverrides(OverridesOf(i)) = {120}
    /\ responder[i].layers = 1
    /\ sent[i] # <<>>
    /\ MaxAgeFields(sent[i][1].headers) = {<<"max-age", "60">>}

\* C16: when the start event passes two layers with the same overrides, the
\* second application of patch_cache_control leaves the header list exactly as
\* the first left it (Cache-Control with the same directives, values and order,
\* or absent), and it never fails where the first did not.
C16_PatchIsIdempotent ==
  \A i \in Handled :
    /\ Len(frame[i].patched) >= 2 => frame[i].patched[2] = frame[i].patched[1]
    /\ pc[i] = "raised" => frame[i].patched = <<>>

\* C16: a start event whose Cache-Control the overrides change has passed two
\* layers and was delivered.
C16_Witness ==
  \E i \in Handled :
    /\ responder[i].layers = 2
    /\ Len(frame[i].patched) = 2
    /\ frame[i].patched[1] # emitted[i][1].headers
    /\ HeaderHas(emitted[i][1].headers, "cache-control")
    /\ MaxAgeOverrides(OverridesOf(i)) # {}
    /\ sent[i] # <<>>

\* The wire names of the override names.
WireName ==
  [max_age |-> "max-age", max_stale |-> "max-stale", no_cache |-> "no-cache",
   no_store |-> "no-store", no_transform |-> "no-transform",
   must_revalidate |-> "must-revalidate", stale_if_error |-> "stale-if-error",
   stale_while_revalidate |-> "stale-while-revalidate",
   public |-> "public", private |-> "private"]

\* The name of one field of the existing header.
FieldName(field) == IF Len(field) = 2 THEN field[1] ELSE JoinEq(field)

\* The greatest index of names that holds name.
LastIndex(names, name) ==
  CHOOSE k \in 1..Len(names) :
    names[k] = name /\ \A l \in 1..Len(names) : names[l] = name => l <= k

RECURSIVE Flatten(_)
Flatten(ss) == IF ss = <<>> THEN <<>> ELSE Head(ss) \o Flatten(Tail(ss))

\* The directive list the rules give for the existing fields and the overrides:
\* names in order of first appearance, existing names before new override
\* names; an overridden name takes the override (max-age the smaller number),
\* false drops the name, true gives the bare name, anything else name=value.
ExpectedDirectives(fields, kwargs) ==
  LET existing == [k \in 1..Len(fields) |-> FieldName(fields[k])]
      overrides == [k \in 1..Len(kwargs) |-> WireName[kwargs[k].key]]
      all == existing \o overrides
      names == Pick(all, {k \in 1..Len(all) : \A l \in 1..(k - 1) : all[l] # all[k]}, 1)
      Overridden(name) == \E k \in 1..Len(overrides) : overrides[k] = name
      Rendered(name) ==
        IF Overridden(name)
        THEN LET v == kwargs[LastIndex(overrides, name)].val
             IN CASE v.t = "bool" /\ ~v.b -> <<>>
                  [] v.t = "bool" /\ v.b -> << <<name>> >>
                  [] OTHER ->
                       IF name = "max-age" /\ \E e \in MaxAgeValues(fields) : e < v.n
                       THEN << <<name, Str(CHOOSE e \in MaxAgeValues(fields) : e < v.n)>> >>
                       ELSE << <<name, Str(v.n)>> >>
        ELSE LET field == fields[LastIndex(existing, name)]
             IN IF Len(field) = 2 THEN << <<name, field[2]>> >> ELSE << <<name>> >>
  IN Flatten([k \in 1..Len(names) |-> Rendered(names[k])])

\* The overrides name neither public nor private.
Supported(kwargs) ==
  \A k \in 1..Len(kwargs) : kwargs[k].key \notin {"public", "private"}

\* The start event of request i has been through the first layer's
\* send_with_caching, which returned or raised.
StartHandled(i) == PatchedOnce(i) \/ pc[i] = "raised"

\* The header list patch_cache_control left is the one it was given with
\* Cache-Control set to the expected directive list, or removed when the list
\* is empty.
PatchedAsExpected(i) ==
  LET expected == ExpectedDirectives(ExistingFields(i), OverridesOf(i))
  IN /\ PatchedOnce(i)
     /\ HeaderHas(frame[i].patched[1], "cache-control") = (expected # <<>>)
     /\ HeaderGet(frame[i].patched[1], "cache-control", <<>>) = expected
     /\ HeaderDel(frame[i].patched[1], "cache-control")
          = HeaderDel(emitted[i][1].headers, "cache-control")

\* C17: for any existing Cache-Control value and supported overrides
\* patch_cache_control yields the directives in order of first appearance,
\* false removing, true rendering the bare name, other values name=value with
\* hyphens for underscores, and removes the header when none remains.
C17_AnyExistingValueYieldsDirectives ==
  \A i \in Handled :
    Supported(OverridesOf(i)) /\ StartHandled(i) => PatchedAsExpected(i)

\* The error raised for request i went up to the caller: the handling ended
\* there, the start event was not sent on and its headers are as the
\* application sent them.
Surfaced(i, error) ==
  /\ pc[i] = "raised"
  /\ frame[i].raised = error
  /\ sent[i] = <<>>
  /\ frame[i].message = emitted[i][1]

\* C18: overrides naming public or private, whatever the value, make
\* patch_cache_control fail with NotImplementedError; the error goes up to the
\* caller and the headers are left as they were.
C18_PublicPrivateRaiseNotImplemented ==
  \A i \in Handled :
    ~Supported(OverridesOf(i)) /\ emitted[i] # <<>> /\ pc[i] # "send_with_caching"
    => Surfaced(i, "NotImplementedError")

\* C19: CacheControlResponder changes nothing but the start event's headers,
\* which are what patch_cache_control leaves for the overrides given at
\* construction; whenever no send_with_caching call is in progress every event
\* the application sent has been delivered, once and in order, body events as
\* they were sent; and no store call is made.
C19_OnlyStartHeadersRewritten ==
  \A i \in Handled :
    /\ ops[i] = <<>> /\ DOMAIN store = {}
    /\ Len(sent[i]) <= Len(emitted[i])
    /\ \A k \in 1..Len(sent[i]) :
         IF k = 1
         THEN /\ SameButHeaders(sent[i][1], emitted[i][1])
              /\ responder[i].layers = 1 =>
                   sent[i][1].headers =
                     patch_cache_control(emitted[i][1].headers, OverridesOf(i)).headers
         ELSE sent[i][k] = emitted[i][k]
    /\ pc[i] \in {"app", "done"} => Len(sent[i]) = Len(emitted[i])
    /\ pc[i] = "send_with_caching" => Len(sent[i]) = Len(emitted[i]) - 1

\* C19: a start event whose headers the overrides change and two body events
\* were delivered through one CacheControlResponder.
C19_Witness ==
  \E i \in Handled :
    /\ responder[i].layers = 1
    /\ pc[i] = "done"
    /\ Len(sent[i]) = 3
    /\ sent[i][1].headers # emitted[i][1].headers
    /\ sent[i][2].more_body

\* C20: a request that reaches a second caching layer is neither served nor
\* stored: no event reaches the client, neither layer writes to the store and
\* the handling does not end normally.
C20_DuplicateCachingFails ==
  \A k \in NestedRequestIds :
    pc[Inner(k)] # "idle" =>
      /\ sent[Outer(k)] = <<>>
      /\ Writes(Outer(k)) = {} /\ Writes(Inner(k)) = {}
      /\ pc[Outer(k)] # "done"

\* The response to request i reached store_in_cache: on the miss path, its
\* first body event was the final one.
ReachedStoreInCache(i) ==
  /\ lookup[i] = "MISS"
  /\ Len(emitted[i]) >= 2
  /\ ~emitted[i][2].more_body

\* store_in_cache refuses the response to request i: its status is neither 200
\* nor 304, or it sets a cookie for a request that sent none, or the ttl is 0.
Rejected(i) ==
  /\ ReachedStoreInCache(i)
  /\ BadStatus(i) \/ CookieForCookieless(i) \/ ttl = <<0>>

\* C21: a response that store_in_cache refuses for its status, for its cookie
\* or for the ttl is delivered as the application sent it, status, headers and
\* body: no Expires and no Cache-Control is added, and nothing is written.
C21_RejectedForwardedUnchanged ==
  \A i \in Handled :
    Rejected(i) =>
      /\ pc[i] = "done"
      /\ sent[i] = emitted[i]
      /\ HeaderHas(sent[i][1].headers, "expires")
           = HeaderHas(emitted[i][1].headers, "expires")
      /\ HeaderHas(sent[i][1].headers, "cache-control")
           = HeaderHas(emitted[i][1].headers, "cache-control")
      /\ Writes(i) = {}

\* C21: with a ttl of 120, one response was refused for its status and another
\* for its cookie, and both were delivered.
C21_Witness ==
  /\ ttl = <<120>>
  /\ \E i, j \in Handled :
       /\ Rejected(i) /\ BadStatus(i)
       /\ Rejected(j) /\ CookieForCookieless(j) /\ ~BadStatus(j)
       /\ Len(sent[i]) = 2 /\ Len(sent[j]) = 2
       /\ ~HeaderHas(sent[i][1].headers, "expires")
       /\ ~HeaderHas(sent[j][1].headers, "cache-control")

\* Request i ends in RequestNotCachable or ResponseNotCachable.
NotCachable(i) == request[i].method \notin {"GET", "HEAD"} \/ Rejected(i)

\* C22: neither RequestNotCachable nor ResponseNotCachable reaches the caller:
\* whatever the method, the status, the cookies and the ttl, the handling never
\* ends in an error and every event of the application's response is delivered.
C22_NotCachableNeverEscapes ==
  \A i \in Handled :
    NotCachable(i) =>
      /\ pc[i] \in {"app", "done"}
      /\ Len(sent[i]) = Len(emitted[i])
      /\ \A k \in 1..Len(sent[i]) : SameButHeaders(sent[i][k], emitted[i][k])

\* C22: a POST request was passed through and a 404 response whose max-age
\* cannot be read was refused, and both responses were delivered.
C22_Witness ==
  \E i, j \in Handled :
    /\ request[i].method = "POST" /\ pc[i] = "done" /\ Len(sent[i]) >= 2
    /\ Rejected(j) /\ BadStatus(j) /\ pc[j] = "done"
    /\ MaxAgeFields(emitted[j][1].headers) = {<<"max-age", "abc">>}
    /\ Len(sent[j]) = 2

\* The headers carry what get_cache_response_headers injects: a max-age
\* directive and an Expires header.
FreshnessInjected(headers) ==
  MaxAgeFields(headers) # {} /\ HeaderHas(headers, "expires")

\* C28, as stated: freshness headers are injected before the cacheability
\* check, so that a non-streaming response that fails the check is delivered
\* with max-age and Expires already in its headers.
C28_RejectedForwardedAsPatched ==
  \A i \in Handled :
    Rejected(i) /\ pc[i] = "done" => FreshnessInjected(sent[i][1].headers)

\* C28: on the final body event of a non-streaming response the cacheability
\* check comes first.  A response that fails it is delivered with the headers
\* the application sent, and no injection is attempted (an unreadable max-age
\* raises nothing); injection is attempted only for a response that passes:
\* it raises, or the response goes on to be stored with max-age and Expires.
C28_CheckPrecedesInjection ==
  \A i \in Handled :
    ReachedStoreInCache(i) =>
      IF Rejected(i)
      THEN /\ pc[i] = "done"
           /\ sent[i][1].headers = emitted[i][1].headers
      ELSE \/ /\ pc[i] = "raised"
              /\ sent[i] = <<>>
              /\ MaxAgeFields(emitted[i][1].headers) = {<<"max-age", "abc">>}
           \/ /\ pc[i] \in {"learn_cache_key", "cache_set", "done"}
              /\ FreshnessInjected(frame[i].response.raw_headers)
              /\ pc[i] = "done" => FreshnessInjected(sent[i][1].headers)

\* C28: with a ttl of 120, a 404 response without freshness headers was
\* delivered without them, and a 200 response was stored and delivered with
\* them.
C28_Witness ==
  /\ ttl = <<120>>
  /\ \E i, j \in Handled :
       /\ Rejected(i) /\ pc[i] = "done"
       /\ ~HeaderHas(emitted[i][1].headers, "cache-control")
       /\ ~FreshnessInjected(sent[i][1].headers)
       /\ ReachedStoreInCache(j) /\ ~Rejected(j) /\ Stored(j)
       /\ FreshnessInjected(sent[j][1].headers)

\* C27: on the miss path of a cachable request nothing is delivered downstream
\* before the application's first body event: while the start event is the
\* only event received it is held in initial_message, and whatever has been
\* delivered was delivered after a body event arrived.
C27_StartHeldUntilFirstBody ==
  \A i \in Handled :
    lookup[i] = "MISS" =>
      /\ Len(emitted[i]) = 1 =>
           /\ sent[i] = <<>>
           /\ responder[i].initial_message = emitted[i][1]
      /\ sent[i] # <<>> => Len(emitted[i]) >= 2

\* C27: on the miss path the application has sent its start event, with
\* headers, and nothing has been delivered.
C27_Witness ==
  \E i \in Handled :
    /\ lookup[i] = "MISS"
    /\ pc[i] = "app"
    /\ Len(emitted[i]) = 1
    /\ emitted[i][1].headers # <<>>
    /\ sent[i] = <<>>

\* C29: when a response is stored, the start event delivered carries the
\* header list of the response given to the store, with the max-age and the
\* Expires that store_in_cache set and the application's other headers; the
\* entry written is the serialization of that response; and the header list
\* the application sent still has the content it was sent with.
C29_ForwardedHeadersAreTheStoredOnes ==
  \A i \in Handled :
    Stored(i) =>
      /\ sent[i][1].headers = frame[i].response.raw_headers
      /\ FreshnessInjected(sent[i][1].headers)
      /\ HeaderDel(HeaderDel(sent[i][1].headers, "cache-control"), "expires")
           = HeaderDel(HeaderDel(emitted[i][1].headers, "cache-control"), "expires")
      /\ (\A j \in Handled : j <= i) =>
           /\ frame[i].cache_key \in DOMAIN store
           /\ store[frame[i].cache_key] = serialize_response(frame[i].response)
      /\ frame[i].app_headers = emitted[i][1].headers

\* C29: a response that came with Cache-Control: no-cache was stored, and was
\* delivered with max-age added to its Cache-Control and with Expires.
C29_Witness ==
  \E i \in Handled :
    /\ Stored(i)
    /\ HeaderGet(emitted[i][1].headers, "cache-control", <<>>) = << <<"no-cache">> >>
    /\ HeaderGet(sent[i][1].headers, "cache-control", <<>>)
         = << <<"no-cache">>, <<"max-age", "120">> >>
    /\ HeaderHas(sent[i][1].headers, "expires")
    /\ frame[i].app_headers = emitted[i][1].headers

\* A call with a scope that is not an http scope took index i.
NonHttp(i) == pc[i] # "idle" /\ ScopeType(request[i]) # "http"

\* C25: for a scope that is not an http scope, CacheMiddleware and
\* CacheControlMiddleware call the application, once, with the send they were
\* given: no responder is made, no lookup is done, no store call is made, the
\* store is as it was, and every event the application sends is delivered as
\* it is.
C25_NonHttpScopePassesThrough ==
  \A i \in Requests :
    NonHttp(i) =>
      /\ pc[i] \in {"app", "done"}
      /\ app_send[i] = "send"
      /\ responder[i] = NewResponder
      /\ frame[i] = NewFrame
      /\ lookup[i] = ""
      /\ ops[i] = <<>>
      /\ sent[i] = emitted[i]

\* C25: with a response in the store, the application of a websocket scope has
\* sent two events and returned.
C25_Witness ==
  \E i \in Requests :
    /\ NonHttp(i)
    /\ ScopeType(request[i]) = "websocket"
    /\ pc[i] = "done"
    /\ Len(sent[i]) = 2
    /\ DOMAIN store # {}

\* A vary-index entry for the URL path of request i existed when the request
\* arrived: an earlier request to that path had its response stored (requests
\* are served one after the other and nothing expires).
IndexExisted(i) ==
  \E j \in Handled : j < i /\ Writes(j) # {} /\ request[j].path = request[i].path

\* The store calls of request i that read a response key.
ResponseKeyGets(i) ==
  {k \in 1..Len(ops[i]) : ops[i][k][1] = "get" /\ ops[i][k][2][1] = "cache_page"}

HeaderValue(r, name) ==
  IF RequestHeaderHas(r.headers, name)
  THEN <<RequestHeaderGet(r.headers, name)>>
  ELSE <<>>

\* The requests before j whose stored response was written at the key request
\* j was served from.
WritersOf(j) ==
  {i \in Handled : i < j /\ Stored(i) /\ frame[i].cache_key = frame[j].cache_key}

\* The request whose stored response request j was served: the last writer of
\* the key.
ServedFrom(j) == CHOOSE i \in WritersOf(j) : \A o \in WritersOf(j) : o <= i

\* Requests i and j have the same value, or both none, for every header that
\* the Vary header of the response to request i names.
AgreeOnVaryOf(i, j) ==
  LET names == VaryingHeaders(emitted[i][1].headers)
  IN \A n \in 1..Len(names) :
       HeaderValue(request[i], names[n]) = HeaderValue(request[j], names[n])

C23_IndexWrittenBeforeResponse ==
  /\ \A i \in Handled :
       \A k \in Writes(i) :
         ops[i][k][2][1] = "cache_page" =>
           /\ k > 1
           /\ ops[i][k - 1] = <<"set", <<"varying_headers", request[i].path>> >>
  /\ \A key \in DOMAIN store :
       key[1] = "cache_page" =>
         \E i \in Handled :
           /\ key[3] = AbsoluteUrl(request[i])
           /\ <<"varying_headers", request[i].path>> \in DOMAIN store

\* C23: while one request has written the vary index of /a and not yet its
\* response, the response of another request is in the store.
C23_Witness ==
  \E i, j \in Handled :
    /\ pc[i] = "cache_set"
    /\ request[i].path = "/a"
    /\ <<"cache_page", "GET", "http://testserver/a", "">> \notin DOMAIN store
    /\ Stored(j)
    /\ frame[j].cache_key \in DOMAIN store

\* The header names, lowercased, that the Vary header of the response to
\* request i lists.
VaryNames(i) ==
  LET fields == HeaderGet(emitted[i][1].headers, "vary", <<>>)
  IN {Lower(JoinEq(fields[n])) : n \in 1..Len(fields)}

\* The value of a request header as the key digest is fed it: nothing for None.
KeyPart(r, name) ==
  IF RequestHeaderHas(r.headers, name) THEN RequestHeaderGet(r.headers, name) ELSE ""

\* The store calls of request j that read `key`.
Reads(j, key) == {k \in 1..Len(ops[j]) : ops[j][k] = <<"get", key>>}

\* The vary-index entry of the URL path of request i is the one written when
\* the response to request i was stored.
IndexUnchangedSince(i) ==
  /\ generate_varying_headers_cache_key(request[i]) \in DOMAIN store
  /\ store[generate_varying_headers_cache_key(request[i])]
       = VaryingHeaders(frame[i].response.raw_headers)

\* C24: the key learnt when the response to request i is stored is made of the
\* request's method, its absolute URL and the values of the varying headers in
\* the order of their names, whatever the order and case in which Vary lists
\* them and whatever other headers the request has; and as long as the vary
\* index is as that store left it, the key get_cache_key derives with that
\* method for a later request with the same URL and the same values of those
\* headers is that very key.
C24_KeyDerivationIsDeterministic ==
  \A i \in Handled :
    Stored(i) =>
      /\ VaryNames(i) = {"accept-encoding", "accept-language"} =>
           frame[i].cache_key =
             <<"cache_page", request[i].method, AbsoluteUrl(request[i]),
               KeyPart(request[i], "accept-encoding")
                 \o KeyPart(request[i], "accept-language")>>
      /\ VaryNames(i) = {} =>
           frame[i].cache_key =
             <<"cache_page", request[i].method, AbsoluteUrl(request[i]), "">>
      /\ \A j \in Handled :
           (/\ j > i
            /\ IndexUnchangedSince(i)
            /\ AbsoluteUrl(request[j]) = AbsoluteUrl(request[i])
            /\ AgreeOnVaryOf(i, j))
           => /\ generate_cache_key(
                   request[j], request[i].method,
                   store[generate_varying_headers_cache_key(request[j])])
                 = frame[i].cache_key
              /\ pc[j] = "cache_get" /\ frame[j].method = request[i].method
                   => frame[j].cache_key = frame[i].cache_key
              /\ Reads(j, frame[i].cache_key) # {} => lookup[j] \in {"", "HIT"}

\* C24: a response whose Vary lists accept-language before Accept-Encoding was
\* stored for a HEAD request, and the next HEAD request, with the same two
\* values in another order and one more header, was served from its key.
C24_Witness ==
  \E i, j \in Handled :
    /\ j = i + 1
    /\ Stored(i)
    /\ request[i].method = "HEAD" /\ request[j].method = "HEAD"
    /\ HeaderGet(emitted[i][1].headers, "vary", <<>>)
         = << <<"accept-language">>, <<"Accept-Encoding">> >>
    /\ request[i].headers = <<AcceptGzip, AcceptFrench>>
    /\ request[j].headers = <<AcceptFrench, <<"x-other", "1">>, AcceptGzip>>
    /\ lookup[j] = "HIT"
    /\ frame[j].cache_key = frame[i].cache_key
    /\ frame[i].cache_key[4] = "gzipfr"

\* The fields of the Vary header of the response stored for request i, as
\* the application sent them.
VaryFields(i) ==
  LET fields == HeaderGet(emitted[i][1].headers, "vary", <<>>)
  IN [k \in 1..Len(fields) |-> JoinEq(fields[k])]

\* The vary-index entry as learn_cache_key has just written it for request i.
IndexWritten(i) == store[generate_varying_headers_cache_key(request[i])]

\* How many times a sequence holds x.
Count(s, x) == Cardinality({k \in 1..Len(s) : s[k] = x})

\* The statement of C31 as written: the entry learn_cache_key writes is in
\* lexicographic order, holds the lowercased names of Vary and holds no name
\* twice.
C31_IndexEntryIsDeduplicated ==
  \A i \in Handled :
    pc[i] = "cache_set" =>
      LET entry == IndexWritten(i)
      IN /\ \A k \in 1..Len(entry) : \E f \in 1..Len(VaryFields(i)) :
              entry[k] = Lower(VaryFields(i)[f])
         /\ \A f \in 1..Len(VaryFields(i)) : Count(entry, Lower(VaryFields(i)[f])) = 1
         /\ \A k \in 1..(Len(entry) - 1) : NameRank(entry[k]) < NameRank(entry[k + 1])

\* C31 (amended): the entry learn_cache_key writes holds one lowercased name
\* for each name the response's Vary header lists, a name listed several times
\* being held as many times, in lexicographic order; it is the empty list when
\* the response has no Vary header.
C31_IndexEntryIsSortedLowercasedList ==
  \A i \in Handled :
    pc[i] = "cache_set" =>
      LET entry == IndexWritten(i)
          lowered == [f \in 1..Len(VaryFields(i)) |-> Lower(VaryFields(i)[f])]
      IN /\ Len(entry) = Len(lowered)
         /\ \A f \in 1..Len(lowered) : Count(entry, lowered[f]) = Count(lowered, lowered[f])
         /\ \A k \in 1..(Len(entry) - 1) : NameRank(entry[k]) <= NameRank(entry[k + 1])
         /\ ~HeaderHas(emitted[i][1].headers, "vary") => entry = <<>>

\* C31: the index entry was just written for a response whose Vary lists
\* accept-language before Accept-Encoding, or Accept-Encoding twice in two
\* cases.
C31_Witness ==
  \E i, j \in Handled :
    /\ pc[j] = "cache_set"
    /\ VaryFields(j) = <<"Accept-Encoding", "accept-encoding">>
    /\ IndexWritten(j) = <<"accept-encoding", "accept-encoding">>
    /\ Stored(i)
    /\ VaryFields(i) = <<"accept-language", "Accept-Encoding">>
    /\ frame[i].cache_key[4] = "gzipfr"

\* The statement of C32 as written: the handling of a final body event makes
\* at most one store write.
C32_AtMostOneWritePerCompletion ==
  \A i \in Handled : Cardinality(Writes(i)) <= 1

\* C32 (amended): the handling of a final body event makes no store write when
\* the response is refused or its headers cannot be patched, and otherwise
\* exactly two, in this order: the vary index of the URL path, then the
\* serialized response at the response key; a streaming response and the
\* events before the final body event cause none.
C32_TwoWritesPerStoredResponse ==
  \A i \in Handled :
    LET sets == [k \in 1..Cardinality(Writes(i)) |->
                   ops[i][CHOOSE n \in Writes(i) :
                            Cardinality({m \in Writes(i) : m <= n}) = k][2]]
    IN /\ Len(sets) <= 2
       /\ (Rejected(i) \/ Streams(i) \/ pc[i] \in {"raised", "app"}) => sets = <<>>
       /\ pc[i] = "cache_set" =>
            sets = <<generate_varying_headers_cache_key(request[i])>>
       /\ (pc[i] = "done" /\ lookup[i] = "MISS" /\ ~Rejected(i) /\ ~Streams(i)) =>
            sets = <<generate_varying_headers_cache_key(request[i]), frame[i].cache_key>>

\* C32: a response was stored with its two writes, another was refused and a
\* third handling, of the same kind, made none.
C32_Witness ==
  \E i, j \in Handled :
    /\ Stored(i) /\ Cardinality(Writes(i)) = 2
    /\ ops[i][Len(ops[i])] = <<"set", frame[i].cache_key>>
    /\ Rejected(j) /\ pc[j] = "done" /\ Writes(j) = {}

\* The final body event of a non-streaming response to request i is being
\* handled by store_in_cache, or its handling raised.
InStoreInCache(i) == pc[i] \in {"learn_cache_key", "cache_set", "raised"}

\* C33: with requests in flight together, what happens to the response of a
\* request that missed depends on that request's own events only.  Its
\* responder has given up caching exactly when its own response streamed or was
\* refused; its start event is held exactly while the application has sent
\* nothing after it or store_in_cache is at work on its only body event; every
\* event delivered on its send is the application's event for that request, in
\* order, with the headers the application gave it or those store_in_cache
\* patched for it; and the store is written for it exactly when its own
\* response is complete, does not stream and is not refused.
C33_InterceptionStateIsPerRequest ==
  \A i \in Handled :
    lookup[i] = "MISS" =>
      /\ ~responder[i].is_response_cachable <=> (Streams(i) \/ Rejected(i))
      /\ sent[i] = <<>> <=> (Len(emitted[i]) <= 1 \/ InStoreInCache(i))
      /\ Len(sent[i]) <= Len(emitted[i])
      /\ \A k \in 1..Len(sent[i]) : SameButHeaders(sent[i][k], emitted[i][k])
      /\ sent[i] # <<>> =>
           sent[i][1].headers \in {emitted[i][1].headers, frame[i].response.raw_headers}
      /\ Writes(i) # {} <=>
           (/\ ReachedStoreInCache(i) /\ ~Rejected(i)
            /\ pc[i] \in {"cache_set", "done"})

\* C33: two requests missed and are in flight together: the response to the
\* first streams and is not over, and the response to the second, which came
\* later, has been stored meanwhile.
C33_Witness ==
  \E i, j \in Handled :
    /\ i < j
    /\ lookup[i] = "MISS" /\ lookup[j] = "MISS"
    /\ pc[i] = "app" /\ Streams(i) /\ emitted[i][1].status = 404
    /\ ~responder[i].is_response_cachable
    /\ Stored(j) /\ Len(ops[j]) = 3
    /\ sent[j][1].status = 200

\* Requests i and j, for the same resource, both missed and both had their
\* response stored.
BothMissedAndStored(i, j) ==
  /\ i # j
  /\ request[i] = request[j]
  /\ lookup[i] = "MISS" /\ lookup[j] = "MISS"
  /\ Stored(i) /\ Stored(j)

\* The requests for the resource of request i, the last one apart, whose
\* response was stored.
Racers(i) ==
  {k \in Handled \ {Last} : request[k] = request[i] /\ Stored(k)}

\* Every response stored for the URL path of request i, that of the last
\* request apart, answered a request for the resource of request i.
OnlyThisResourceStored(i) ==
  \A k \in Handled \ {Last} :
    (Stored(k) /\ request[k].path = request[i].path) => request[k] = request[i]

\* Each of two requests for one resource that both missed called the
\* application and made its own two writes; once they are over, the request
\* that arrives next with the same URL and headers (nothing having been stored
\* for another resource of the path meanwhile) is a hit, is served without the
\* application, and what it is served is the entry one of the requests that
\* missed wrote.
RaceEndsInHit ==
  \A i, j \in Handled :
    BothMissedAndStored(i, j) =>
      /\ Invoked(i) /\ Invoked(j)
      /\ Cardinality(Writes(i)) = 2 /\ Cardinality(Writes(j)) = 2
      /\ (/\ pc[Last] = "done" /\ Last \notin {i, j}
          /\ request[Last] = request[i]
          /\ OnlyThisResourceStored(i))
         => /\ lookup[Last] = "HIT"
            /\ ~Invoked(Last)
            /\ store[frame[Last].cache_key]
                 \in {serialize_response(frame[k].response) : k \in Racers(i)}
            /\ frame[Last].response
                 = deserialize_response(store[frame[Last].cache_key])

\* A write of a serialized response leaves at its key what it wrote, whatever
\* the key held, and touches no other key.
LastWriteWins ==
  \A i \in DOMAIN pc :
    cache_set(i) =>
      /\ store'[frame[i].cache_key] = serialize_response(frame[i].response)
      /\ \A k \in DOMAIN store : k # frame[i].cache_key => store'[k] = store[k]

\* C34: two requests for one resource that both miss each call the application
\* and each write the store; every write replaces what the key held, so that
\* when both are over the key holds the entry written last, and the next
\* identical request is a hit.
C34_ConcurrentMissesLastWriteWins == []RaceEndsInHit /\ [][LastWriteWins]_vars

\* C34: two identical requests both missed and stored responses with different
\* bodies, the second overwrote the entry of the first, and the request that
\* came after them was a hit served the second one's body.
C34_Witness ==
  \E i, j \in Handled :
    /\ BothMissedAndStored(i, j)
    /\ frame[i].cache_key = frame[j].cache_key
    /\ frame[i].response.body = "x" /\ frame[j].response.body = "y"
    /\ pc[Last] = "done" /\ Last \notin {i, j}
    /\ request[Last] = request[i]
    /\ lookup[Last] = "HIT"
    /\ frame[Last].response.body = "y"

\* The store calls of request i that failed.
FailedCalls(i) == {k \in 1..Len(ops[i]) : ops[i][k][1] = "failed"}

\* C35: a store call that fails, a read or a write, ends the handling of the
\* request with the error going up to the caller: the call is not made again
\* and no store call follows it (at most one call fails per request, and it is
\* the last), nothing is delivered downstream after it, a failed lookup does
\* not call the application, and a failed write leaves the store as it was.
C35_StoreFailureIsFatalAndNotRetried ==
  \A i \in Handled :
    /\ Cardinality(FailedCalls(i)) <= 1
    /\ FailedCalls(i) # {} =>
         /\ pc[i] = "raised"
         /\ FailedCalls(i) = {Len(ops[i])}
         /\ sent[i] = <<>>
         /\ lookup[i] = "" => ~Invoked(i)
         /\ ops[i][Len(ops[i])][2] = <<"set", frame[i].cache_key>>
              => (frame[i].cache_key \in DOMAIN store
                    => \E j \in Handled : j # i /\ Stored(j)
                                          /\ frame[j].cache_key = frame[i].cache_key)

\* C35: a lookup failed for one request, a write of the vary index for another
\* and a write of the response for a third.
C35_Witness ==
  \E i, j, k \in Handled :
    /\ pc[i] = "raised" /\ lookup[i] = ""
    /\ ops[i][Len(ops[i])][1] = "failed" /\ ops[i][Len(ops[i])][2][1] = "get"
    /\ pc[j] = "raised" /\ lookup[j] = "MISS" /\ Len(emitted[j]) = 2
    /\ ops[j][Len(ops[j])]
         = <<"failed", <<"set", generate_varying_headers_cache_key(request[j])>> >>
    /\ pc[k] = "raised" /\ lookup[k] = "MISS" /\ Len(emitted[k]) = 2
    /\ ops[k][Len(ops[k])] = <<"failed", <<"set", frame[k].cache_key>> >>

\* C36: once the response to a request has been stored (nothing expires in
\* this model), a later request with the same method, URL and headers is a
\* hit, whatever was served in between.
C36_StoredRepeatIsAlwaysHit ==
  \A i, j \in Handled :
    (/\ i < j
     /\ request[j] = request[i]
     /\ Stored(i)
     /\ lookup[j] # "")
    => lookup[j] = "HIT"

\* "assert cache_key is not None" failed in get_from_cache for request i: the
\* derivation of the GET key found the vary index, the derivation of the HEAD
\* key did not.
HeadKeyAssertionFailed(i) ==
  /\ pc[i] = "raised"
  /\ frame[i].method = "HEAD"
  /\ Len(ops[i]) = 3
  /\ ops[i][1] = <<"get", generate_varying_headers_cache_key(request[i])>>
  /\ ops[i][3] = ops[i][1]

\* C37: in get_from_cache, a derivation of the HEAD key that follows a
\* derivation of the GET key which found the vary index finds the vary index
\* too: the assertion that the HEAD key is not None never fails, whatever the
\* other requests do and whatever the store drops between the two reads.
C37_HeadKeyAssertionNeverFails ==
  \A i \in Handled : ~HeadKeyAssertionFailed(i)

\* Requests i and j have the same value for the header `name`, or both lack
\* it.
SameHeader(i, j, name) ==
  /\ RequestHeaderHas(request[i].headers, name)
       <=> RequestHeaderHas(request[j].headers, name)
  /\ RequestHeaderHas(request[i].headers, name) =>
       RequestHeaderGet(request[i].headers, name)
         = RequestHeaderGet(request[j].headers, name)

\* C38: for one method, one URL and one list of varying headers, two requests
\* are given the same response key only if they agree on every header of the
\* list, a header that is absent not being one with an empty value.
C38_KeyIsInjectiveOnVaryingValues ==
  \A i, j \in Handled :
    (/\ frame[i].cache_key # <<>>
     /\ frame[j].cache_key # <<>>
     /\ AbsoluteUrl(request[i]) = AbsoluteUrl(request[j])
     /\ frame[i].cache_key = frame[j].cache_key)
    => \A name \in {"accept-encoding", "accept-language"} :
         (\E k \in DOMAIN store :
            /\ k = generate_varying_headers_cache_key(request[i])
            /\ \E n \in 1..Len(store[k]) : store[k][n] = name)
         => SameHeader(i, j, name)

\* The keys of the store that hold a serialized response.
ResponseKeys == {key \in DOMAIN store : key[1] = "cache_page"}

\* Request i wrote the entry the store holds at `key`.
WroteEntry(i, key) ==
  /\ Stored(i)
  /\ frame[i].cache_key = key
  /\ store[key] = serialize_response(frame[i].response)

\* C39: every serialized response in the store has status 200 or 304, has a
\* Cache-Control header with a max-age directive and an Expires header, and
\* was written for a request whose response came in one start event and one
\* final body event, with that body; when the application had set Expires the
\* entry has the application's value.
C39_EveryEntryIsCompleteAndFresh ==
  \A key \in ResponseKeys :
    LET entry == store[key]
    IN /\ entry.status_code \in {200, 304}
       /\ HeaderHas(entry.headers, "cache-control")
       /\ MaxAgeFields(entry.headers) # {}
       /\ HeaderHas(entry.headers, "expires")
       /\ \E i \in Handled :
            /\ WroteEntry(i, key)
            /\ Len(emitted[i]) = 2
            /\ ~Streams(i)
            /\ entry.content = bytes_to_json_string(emitted[i][2].body)
            /\ entry.status_code = emitted[i][1].status
            /\ HeaderHas(emitted[i][1].headers, "expires") =>
                 HeaderGet(entry.headers, "expires", <<>>)
                   = HeaderGet(emitted[i][1].headers, "expires", <<>>)

\* C39: the store holds an entry whose Expires is the application's and an
\* entry whose Expires was added, one of them with status 304.
C39_Witness ==
  \E a, b \in ResponseKeys :
    /\ HeaderGet(store[a].headers, "expires", <<>>) = ExpiresSet[2]
    /\ HeaderGet(store[b].headers, "expires", <<>>) = << <<Str(127)>> >>
    /\ store[a].status_code = 304
    /\ store[b].status_code = 200

\* The lifetimes an Expires header added at one of the times of the model may
\* encode.
Lifetimes == {30, 60, 120, ONE_YEAR}

\* store_in_cache added an Expires header to the response to request i: the
\* response was stored and the application had set none.
ExpiresAdded(i) ==
  /\ Stored(i)
  /\ lookup[i] = "MISS"
  /\ ~HeaderHas(emitted[i][1].headers, "expires")

\* The seconds between the time store_in_cache read and the date of the
\* Expires header it added for request i.
ExpiresLifetime(i) ==
  CHOOSE n \in Lifetimes :
    HeaderGet(frame[i].response.raw_headers, "expires", <<>>)
      = << <<http_date(frame[i].time + n)>> >>

\* C40: when store_in_cache adds an Expires header, its date is the current
\* time plus the max-age written to Cache-Control for the same response, also
\* when the response came with a max-age smaller than the ttl.
C40_ExpiresAgreesWithMaxAge ==
  \A i \in Handled :
    ExpiresAdded(i) =>
      MaxAgeFields(frame[i].response.raw_headers)
        = {<<"max-age", Str(ExpiresLifetime(i))>>}

====
